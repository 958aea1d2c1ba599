---------------------------- MODULE AdminConsole ----------------------------
(***************************************************************************)
(* The pages of the administration that edit the website's working copy,   *)
(* and the part of the server they talk to: api.ts, AdminProviders.tsx,    *)
(* WebsitePanel.tsx, ListingProfilesPanel.tsx and PublicCopyPanel.tsx of   *)
(* web/ui/src/admin; the handlers of webapp/website.go and public_copy.go; *)
(* storage/sqlite/website_store.go.                                        *)
(*                                                                         *)
(* One browser has one session cookie and several tabs.  A tab is bound to *)
(* the session that answered it first and shows one panel; a panel holds   *)
(* the working copy it was last told of, with its revision, and forms that *)
(* were filled from it.  All panels edit the one working copy: a save      *)
(* names the revision the panel holds and carries along, of that revision, *)
(* what its form does not have.  Calls wait in flight while tabs are       *)
(* switched and closed and sessions begin and end; answers may be lost.    *)
(*                                                                         *)
(* A value is named by the revision that wrote it.                         *)
(***************************************************************************)
EXTENDS Integers, FiniteSets

CONSTANTS
  Tabs,
  Sessions,
  Slots,      \* calls that may be in flight together
  CopyKeys,   \* texts of the public site, one locale each
  None,
  Events,     \* what happens besides loading and saving, see ConsoleAssumption
  MaxRev      \* bound on the revision of the working copy

ASSUME ConsoleAssumption ==
  /\ None \notin Tabs \cup Sessions
  /\ CopyKeys \cap {"session", "load", "site", "profiles", "locale", "restore", "css", "logout"} = {}
  /\ Events \subseteq {"revoke", "close", "switch", "check", "logout", "css", "restore", "fail", "lose"}
  /\ MaxRev \in Nat \ {0}

VARIABLES
  cookie,    \* the session cookie of the browser
  session,   \* admin_sessions: "unused", "valid" or "ended"
  work,      \* website_working
  past,      \* history variable: the working copy at every revision
  tab,
  call       \* requests in flight, by slot

vars == <<cookie, session, work, past, tab, call>>

\* config_json holds the site and the listing profiles, other columns the rest.
Config == {"site", "profiles"}
Localization == {"locale"} \cup CopyKeys
Fields == Config \cup Localization
Doc == [Fields -> 0..MaxRev]
NoDoc == [f \in Fields |-> 0]

\* WebsiteState, as far as it is about the working copy.
View == [rev: 0..MaxRev, doc: Doc]
NoView == [rev |-> 0, doc |-> NoDoc]

Panels == {"website", "listing", "copy"}
Reads == {"session", "load"}
Saves == {"site", "locale", "profiles"} \cup CopyKeys
What == Reads \cup Saves \cup {"restore", "css", "logout"}

\* page is the session the document was served to, scope the one it is bound
\* to, from (a history variable) the one that answered what the panel shows.
Tab == [mode: {"closed", "starting", "open"}, page: Sessions \cup {None},
        scope: Sessions \cup {None}, panel: Panels \cup {None}, view: View, form: Doc,
        from: Sessions \cup {None}]
Blank(mode) == [mode |-> mode, page |-> None, scope |-> None, panel |-> None,
                view |-> NoView, form |-> NoDoc, from |-> None]

Serving == {"admitted", "read", "saved"}
Answers == {"ok", "refused", "forbidden", "denied"}

\* shown says that the component that made the call is still there, as is the
\* cookie that went with it; base (a history variable) is what the forms had
\* been filled with.  A call whose page is gone has no tab.
Call == [tab: Tabs \cup {None}, shown: BOOLEAN, what: What, as: Sessions \cup {None},
         scope: Sessions \cup {None}, csrf: Sessions \cup {None}, expect: 0..MaxRev,
         put: Doc, base: 0..MaxRev, pc: {"idle", "sent"} \cup Serving \cup Answers, got: View]
Idle == [tab |-> None, shown |-> FALSE, what |-> "load", as |-> None, scope |-> None,
         csrf |-> None, expect |-> 0, put |-> NoDoc, base |-> 0, pc |-> "idle", got |-> NoView]

TypeOK ==
  /\ cookie \in Sessions \cup {None}
  /\ session \in [Sessions -> {"unused", "valid", "ended"}]
  /\ work \in View
  /\ past \in [1..MaxRev -> Doc]
  /\ tab \in [Tabs -> Tab]
  /\ call \in [Slots -> Call]

-----------------------------------------------------------------------------
(* Sessions and tabs *)

\* adminLogin, in any tab: the cookie is the browser's.
SignIn(s) ==
  /\ session[s] = "unused"
  /\ session' = [session EXCEPT ![s] = "valid"] /\ cookie' = s
  /\ UNCHANGED <<work, past, tab, call>>

\* It expires, or its user gets another password, role or status.
Revoke(s) ==
  /\ "revoke" \in Events
  /\ session[s] = "valid"
  /\ session' = [session EXCEPT ![s] = "ended"]
  /\ UNCHANGED <<cookie, work, past, tab, call>>

\* Of a call whose page is gone only what it has yet to do matters.
Orphan(q) ==
  IF q.what = "logout" \/ (q.what \notin Reads /\ q.pc \in {"sent", "admitted", "read"})
  THEN [q EXCEPT !.tab = None, !.shown = FALSE] ELSE Idle
CallsWithout(t) == [c \in Slots |-> IF call[c].tab = t THEN Orphan(call[c]) ELSE call[c]]

\* Any panel's document carries the CSRF token of the session it is served to.
Open(t) ==
  /\ tab[t].mode = "closed" /\ cookie # None /\ session[cookie] = "valid"
  /\ tab' = [tab EXCEPT ![t] = [Blank("starting") EXCEPT !.page = cookie]]
  /\ UNCHANGED <<cookie, session, work, past, call>>

Close(t) ==
  /\ "close" \in Events
  /\ tab[t].mode # "closed"
  /\ tab' = [tab EXCEPT ![t] = Blank("closed")]
  /\ call' = CallsWithout(t)
  /\ UNCHANGED <<cookie, session, work, past>>

-----------------------------------------------------------------------------
(* The page makes a call *)

Fetch(t, what) ==
  [Idle EXCEPT !.tab = t, !.shown = TRUE, !.what = what, !.as = cookie,
               !.scope = tab[t].scope, !.csrf = tab[t].page, !.pc = "sent"]

\* A write of the working copy that the panel holds.
Write(t, what, put, base) ==
  [Fetch(t, what) EXCEPT !.expect = tab[t].view.rev, !.put = put, !.base = base]

Under(t, what) == \E c \in Slots : call[c].tab = t /\ call[c].shown /\ call[c].what \in what

\* The panel shows its own call as loading and takes no other.
Free(t) == tab[t].mode = "open" /\ tab[t].panel # None /\ ~Under(t, What \ {"session", "logout"})

\* The first effect of AdminProviders, its Retry, and the check on focus.
CheckSession(t, c) ==
  /\ tab[t].mode = "starting" \/ (tab[t].mode = "open" /\ "check" \in Events)
  /\ ~Under(t, {"session"}) /\ call[c] = Idle
  /\ call' = [call EXCEPT ![c] = Fetch(t, "session")]
  /\ UNCHANGED <<cookie, session, work, past, tab>>

Logout(t, c) ==
  /\ "logout" \in Events
  /\ tab[t].mode = "open" /\ ~Under(t, {"logout"}) /\ call[c] = Idle
  /\ call' = [call EXCEPT ![c] = Fetch(t, "logout")]
  /\ UNCHANGED <<cookie, session, work, past, tab>>

\* Another panel takes the place of the one shown and loads.  The calls of the
\* old one go on.
Show(t, c, p) ==
  /\ tab[t].mode = "open" /\ call[c] = Idle /\ (tab[t].panel = None \/ "switch" \in Events)
  /\ tab' = [tab EXCEPT ![t] = [Blank("open") EXCEPT !.page = tab[t].page, !.scope = tab[t].scope,
                                                     !.panel = p]]
  /\ call' = [d \in Slots |->
       IF d = c THEN Fetch(t, "load")
       ELSE IF call[d].tab = t /\ call[d].what \notin {"session", "logout"}
            THEN [call[d] EXCEPT !.shown = FALSE] ELSE call[d]]
  /\ UNCHANGED <<cookie, session, work, past>>

\* What a save sends: the working copy the panel holds, with one field as its
\* form has it, edited or not.
Draft(t, f, edited) ==
  [tab[t].view.doc EXCEPT ![f] = IF edited THEN tab[t].view.rev + 1 ELSE tab[t].form[f]]

Editable(panel) ==
  IF panel = "website" THEN {"site", "locale"}
  ELSE IF panel = "listing" THEN {"profiles"} ELSE CopyKeys

\* saveWorking, saveLocalization, saveConfiguration, and save and reset of a
\* text.  A form that was never filled misses required values.
Save(t, c, f, edited) ==
  /\ Free(t) /\ f \in Editable(tab[t].panel) /\ call[c] = Idle
  /\ tab[t].view.rev \in 1..MaxRev - 1 /\ tab[t].form[f] # 0
  /\ call' = [call EXCEPT ![c] = Write(t, f, Draft(t, f, edited), tab[t].form[f])]
  /\ UNCHANGED <<cookie, session, work, past, tab>>

\* Any revision may be one that was published and so has become a version.
RestoreVersion(t, c, v) ==
  /\ "restore" \in Events
  /\ Free(t) /\ tab[t].panel = "website" /\ v <= work.rev /\ call[c] = Idle
  /\ tab[t].view.rev \in 1..MaxRev - 1
  /\ call' = [call EXCEPT ![c] = Write(t, "restore", past[v], 0)]
  /\ UNCHANGED <<cookie, session, work, past, tab>>

\* setCustomCSSDisabled names no revision.
SetCustomCSS(t, c) ==
  /\ "css" \in Events
  /\ Free(t) /\ tab[t].panel = "website" /\ call[c] = Idle
  /\ call' = [call EXCEPT ![c] = Fetch(t, "css")]
  /\ UNCHANGED <<cookie, session, work, past, tab>>

-----------------------------------------------------------------------------
(* The server *)

\* matchesAdminScope: a client that is not bound yet names no scope.
InScope(scope, s) == scope = None \/ scope = s

VerdictByCookie(q) == IF q.as # None /\ session[q.as] = "valid" THEN "admitted" ELSE "denied"

\* readSession, requireCapability and adminLogout.
Verdict(q) ==
  IF q.as = None THEN "denied"
  ELSE IF session[q.as] # "valid" \/ ~InScope(q.scope, q.as) THEN "denied"
  ELSE IF q.what \notin Reads /\ q.csrf # q.as THEN "forbidden"
  ELSE "admitted"

\* What an answer holds and what the page knows of the call.
Over(q, pc) ==
  [Idle EXCEPT !.tab = q.tab, !.shown = q.shown, !.what = q.what, !.as = q.as, !.pc = pc]

\* A read is answered at once: WebsiteState is one statement.
Admit(c) ==
  LET q == call[c] IN
  /\ q.pc = "sent"
  /\ call' = [call EXCEPT ![c] =
       IF Verdict(q) # "admitted" THEN Over(q, Verdict(q))
       ELSE IF q.what \in Reads THEN [Over(q, "ok") EXCEPT !.got = work]
       ELSE [q EXCEPT !.pc = "admitted"]]
  /\ UNCHANGED <<cookie, session, work, past, tab>>

\* adminSavePublicCopy and adminResetPublicCopy read the working copy, and put
\* the one text into what they read.
ReadCopy(c) ==
  LET q == call[c] IN
  /\ q.pc = "admitted" /\ q.what \in CopyKeys
  /\ call' = [call EXCEPT ![c] =
       [q EXCEPT !.pc = "read", !.put = [work.doc EXCEPT ![q.what] = q.put[q.what]]]]
  /\ UNCHANGED <<cookie, session, work, past, tab>>

\* The columns that the statement of a save sets.
Columns(what) ==
  IF what = "restore" THEN Fields ELSE IF what \in Config THEN Config ELSE Localization

Ready(q) == q.pc = IF q.what \in CopyKeys THEN "read" ELSE "admitted"

CurrentOrLater(q) == q.expect <= work.rev

\* WHERE revision=?
Current(q) == q.expect = work.rev

\* SaveWebsiteWorking, SaveWebsiteLocalization and RestoreWebsiteVersion, their
\* transaction.
Commit(c) ==
  LET q == call[c] IN
  /\ Ready(q) /\ q.what \in Saves \cup {"restore"}
  /\ IF Current(q) /\ work.rev < MaxRev
     THEN /\ work' = [rev |-> work.rev + 1,
                      doc |-> [f \in Fields |-> IF f \in Columns(q.what) THEN q.put[f] ELSE work.doc[f]]]
          /\ past' = [past EXCEPT ![work.rev + 1] = work'.doc]
          /\ call' = [call EXCEPT ![c] = [Over(q, "saved") EXCEPT !.scope = q.scope]]
     ELSE /\ call' = [call EXCEPT ![c] = Over(q, "refused")]
          /\ UNCHANGED <<work, past>>
  /\ UNCHANGED <<cookie, session, tab>>

\* SetWebsiteCustomCSSDisabled leaves the working copy alone.
ToggleCSS(c) ==
  /\ call[c].pc = "admitted" /\ call[c].what = "css"
  /\ call' = [call EXCEPT ![c] = [Over(@, "saved") EXCEPT !.scope = call[c].scope]]
  /\ UNCHANGED <<cookie, session, work, past, tab>>

\* A save is answered with the working copy as it is by then.
ReadBack(c) ==
  /\ call[c].pc = "saved"
  /\ call' = [call EXCEPT ![c] = [Over(@, "ok") EXCEPT !.got = work]]
  /\ UNCHANGED <<cookie, session, work, past, tab>>

\* adminLogout revokes the session of the cookie.
EndSession(c) ==
  LET q == call[c] IN
  /\ q.pc = "admitted" /\ q.what = "logout"
  /\ session' = [session EXCEPT ![q.as] = "ended"]
  /\ call' = [call EXCEPT ![c] = Over(q, "ok")]
  /\ UNCHANGED <<cookie, work, past, tab>>

\* Any statement may fail, also the one that reads the answer of a save.
Fail(c) ==
  /\ "fail" \in Events
  /\ call[c].pc \in Serving
  /\ call' = [call EXCEPT ![c] = Over(@, "refused")]
  /\ UNCHANGED <<cookie, session, work, past, tab>>

-----------------------------------------------------------------------------
(* The answer reaches the page, or does not *)

Expecting(c) == call[c].tab # None /\ call[c].pc # "idle"

Reloading == {"site", "locale", "profiles", "restore", "css"}

\* After an error the website and the listing panel load again, the copy panel
\* stays as it is.
AfterError(q) == IF q.shown /\ q.what \in Reloading THEN Fetch(q.tab, "load") ELSE Idle

\* expireSession: calls are aborted, late answers are dropped, nothing is shown.
End(t) == tab' = [tab EXCEPT ![t] = Blank("closed")]
AbortCalls(c, t) == call' = [CallsWithout(t) EXCEPT ![c] = Idle]

Denied(c) ==
  /\ Expecting(c) /\ call[c].pc = "denied"
  /\ End(call[c].tab) /\ AbortCalls(c, call[c].tab)
  /\ UNCHANGED <<cookie, session, work, past>>

Refused(c) ==
  /\ Expecting(c) /\ call[c].pc \in {"refused", "forbidden"}
  /\ call' = [call EXCEPT ![c] = AfterError(@)]
  /\ UNCHANGED <<cookie, session, work, past, tab>>

\* bindSessionScope at first, a comparison later.
SessionAnswered(c) ==
  LET q == call[c] IN
  /\ Expecting(c) /\ q.pc = "ok" /\ q.what = "session"
  /\ IF tab[q.tab].mode = "starting"
     THEN /\ tab' = [tab EXCEPT ![q.tab] = [@ EXCEPT !.mode = "open", !.scope = q.as]]
          /\ call' = [call EXCEPT ![c] = Idle]
     ELSE IF q.as = tab[q.tab].scope
     THEN call' = [call EXCEPT ![c] = Idle] /\ UNCHANGED tab
     ELSE End(q.tab) /\ AbortCalls(c, q.tab)
  /\ UNCHANGED <<cookie, session, work, past>>

\* The answer takes the cookie away, whatever session the browser has by now.
LoggedOut(c) ==
  /\ Expecting(c) /\ call[c].pc = "ok" /\ call[c].what = "logout"
  /\ cookie' = None
  /\ End(call[c].tab) /\ AbortCalls(c, call[c].tab)
  /\ UNCHANGED <<session, work, past>>

\* The forms that the handler of an answer fills.
Fills(what) == IF what = "css" THEN {} ELSE IF what = "locale" THEN {"locale"} ELSE Fields

RevisionShown(t, q) ==
  [rev |-> q.got.rev, doc |-> IF q.what = "css" THEN tab[t].view.doc ELSE q.got.doc]

\* setWebsiteState, setWebsite and setState take the answer as a whole.
Shown(t, q) == q.got

Told(t, q) ==
  [tab[t] EXCEPT !.view = Shown(t, q), !.from = q.as,
                 !.form = [f \in Fields |-> IF f \in Fills(q.what) THEN q.got.doc[f] ELSE tab[t].form[f]]]

PanelAnswered(c) ==
  LET q == call[c] IN
  /\ Expecting(c) /\ q.pc = "ok" /\ q.shown /\ q.what \in Reloading \cup {"load"}
  /\ tab' = [tab EXCEPT ![q.tab] = Told(q.tab, q)]
  /\ call' = [call EXCEPT ![c] = Idle]
  /\ UNCHANGED <<cookie, session, work, past>>

\* The copy panel takes no notice of what the answer holds and loads.
CopySaved(c) ==
  /\ Expecting(c) /\ call[c].pc = "ok" /\ call[c].shown /\ call[c].what \in CopyKeys
  /\ call' = [call EXCEPT ![c] = Fetch(call[c].tab, "load")]
  /\ UNCHANGED <<cookie, session, work, past, tab>>

\* An answer for a panel that is gone.
TooLate(c) ==
  /\ Expecting(c) /\ call[c].pc = "ok" /\ ~call[c].shown
  /\ call' = [call EXCEPT ![c] = Idle]
  /\ UNCHANGED <<cookie, session, work, past, tab>>

\* A call whose page is gone may never have arrived, and ends unheard; the
\* browser may still take the cookie away.
Unheard(c) ==
  /\ call[c].tab = None /\ call[c].pc \in {"sent"} \cup Answers
  /\ call' = [call EXCEPT ![c] = Idle]
  /\ \/ UNCHANGED cookie
     \/ call[c].what = "logout" /\ call[c].pc = "ok" /\ cookie' = None
  /\ UNCHANGED <<session, work, past, tab>>

\* The connection breaks: the page is told of an unknown outcome, the handler
\* goes on.
Lose(c) ==
  /\ "lose" \in Events
  /\ Expecting(c)
  /\ IF call[c].pc \in Serving
     THEN \E d \in Slots :
            /\ call[d] = Idle
            /\ call' = [call EXCEPT ![c] = Orphan(call[c]), ![d] = AfterError(call[c])]
     ELSE call' = [call EXCEPT ![c] = AfterError(@)]
  /\ UNCHANGED <<cookie, session, work, past, tab>>

-----------------------------------------------------------------------------
Init ==
  /\ cookie = None
  /\ session = [s \in Sessions |-> "unused"]
  /\ work = [rev |-> 1, doc |-> [f \in Fields |-> 1]]
  /\ past = [r \in 1..MaxRev |-> IF r = 1 THEN work.doc ELSE NoDoc]
  /\ tab = [t \in Tabs |-> Blank("closed")]
  /\ call = [c \in Slots |-> Idle]

Browser ==
  \/ \E s \in Sessions : SignIn(s) \/ Revoke(s)
  \/ \E t \in Tabs :
       \/ Open(t) \/ Close(t)
       \/ \E c \in Slots :
            \/ CheckSession(t, c) \/ Logout(t, c) \/ SetCustomCSS(t, c)
            \/ \E p \in Panels : Show(t, c, p)
            \/ \E f \in Fields, edited \in BOOLEAN : Save(t, c, f, edited)
            \/ \E v \in 1..MaxRev : RestoreVersion(t, c, v)

Server ==
  \E c \in Slots : Admit(c) \/ ReadCopy(c) \/ Commit(c) \/ ToggleCSS(c) \/ ReadBack(c)
                   \/ EndSession(c) \/ Fail(c)

Answer ==
  \E c \in Slots : Denied(c) \/ Refused(c) \/ SessionAnswered(c) \/ LoggedOut(c)
                   \/ PanelAnswered(c) \/ CopySaved(c) \/ TooLate(c) \/ Unheard(c) \/ Lose(c)

Next == Browser \/ Server \/ Answer

Spec == Init /\ [][Next]_vars

-----------------------------------------------------------------------------
(* Properties *)

\* What a tab shows was answered to the session the tab is bound to, whatever
\* sign-ins and sign-outs the other tabs have made since.
OneSession == \A t \in Tabs : tab[t].view.rev > 0 => tab[t].from = tab[t].scope

\* The server serves a write only for the session whose data the page showed
\* when it sent it: nobody saves, or is signed out, in another's name.
WrittenAsShown ==
  \A c \in Slots : call[c].pc \in Serving => call[c].as = call[c].scope

Committed(c) == call[c].pc # "saved" /\ call'[c].pc = "saved" /\ work' # work

\* A save changes the field it edits and leaves all others at what they are
\* when it is committed, though it carries them along from an earlier answer.
CarriesAlong ==
  [][\A c \in Slots : Committed(c) /\ call[c].what \in Saves =>
       \A f \in Fields \ {call[c].what} : work'.doc[f] = work.doc[f]]_vars

SeenBefore(c) ==
  LET f == call[c].what IN
  Committed(c) /\ work'.doc[f] # work.doc[f] => call[c].base = work.doc[f]

\* A save from the listing or the copy panel replaces nothing but what its form
\* had shown.
ListingAndCopySeen ==
  [][\A c \in Slots : call[c].what \in {"profiles"} \cup CopyKeys => SeenBefore(c)]_vars

\* "stale save error" (storage/sqlite/website_store_test.go:49): a save made
\* from what another has replaced since is refused.
SeenBeforeReplaced == [][\A c \in Slots : call[c].what \in Saves => SeenBefore(c)]_vars
=============================================================================
