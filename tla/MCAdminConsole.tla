--------------------------- MODULE MCAdminConsole ---------------------------
(* Small instances of AdminConsole for TLC. *)
EXTENDS AdminConsole, TLC

CONSTANTS t1, t2, s1, s2, q1, q2, none

\* No property names a tab, a session or a slot.
Symmetry == Permutations(Tabs) \cup Permutations(Sessions) \cup Permutations(Slots)

(***************************************************************************)
(* Everything at once is too large.  One part of the run is about saves:   *)
(* two tabs of one session, each with its panel, that edit the working     *)
(* copy up to MaxRev; while a save is on its way its panel or tab may go,  *)
(* or the session end.  The other part is about sessions that come and go  *)
(* while tabs, panels and calls do: its write is the custom CSS switch,    *)
(* which is admitted as every write is, and of two open tabs one has a     *)
(* call in flight at a time.                                               *)
(***************************************************************************)
OnTheWay(c) == call[c].what \in Saves
Saving == work.rev > 1 \/ \E c \in Slots : OnTheWay(c) \/ call[c].what = "restore"
Ended == \E s \in Sessions : session[s] = "ended"

\* A save whose panel has given way to another.
Left == \E c \in Slots : OnTheWay(c) /\ call[c].tab # None /\ ~call[c].shown
Coming ==
  \/ \A s \in Sessions : session[s] # "unused"
  \/ \E c \in Slots :
       LET q == call[c] IN
       \/ q.what = "logout"
       \/ q.tab # None /\ ~q.shown /\ ~OnTheWay(c)
       \/ q.tab # None /\ q.what = "session" /\ tab[q.tab].mode = "open"

OneTab == \E t \in Tabs : \A u \in Tabs \ {t} : tab[u].mode = "closed"
OneCall == \E c \in Slots : \A d \in Slots \ {c} : call[d] = Idle
\* After the last revision nothing is committed any more, and what a call is
\* admitted for does not depend on revisions.
EitherPart ==
  /\ work.rev < MaxRev
  /\ Coming => ~Saving
  /\ Coming \/ (Ended /\ ~Saving) => OneTab \/ OneCall
  /\ Left => OneTab

\* Where saves are made, a tab or its panel goes only from under a save of its
\* own, and a closed tab is not opened again.
Stays(t) ==
  /\ tab'[t].mode = "closed" <=> tab[t].mode = "closed"
  /\ tab[t].panel # None =>
       tab'[t].panel = tab[t].panel /\ tab'[t].view.rev >= tab[t].view.rev
LeavesOnlyASave ==
  Saving /\ Saving' =>
    /\ session' = session \/ \E c \in Slots : OnTheWay(c)
    /\ Ended => \A c \in Slots : call[c] = Idle => call'[c] = Idle
    /\ \A t \in Tabs :
         \/ Ended \/ Stays(t)
         \/ tab[t].mode # "closed" /\ \E c \in Slots : call[c].tab = t /\ OnTheWay(c)
=============================================================================
