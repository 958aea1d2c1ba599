-------------------------- MODULE PublicAdmission --------------------------
(***************************************************************************)
(* What publication promises to editors and visitors, without queues,      *)
(* units, routes or epochs.  An editor works on numbered revisions of a    *)
(* product; at most one revision of it is online; a visitor is shown that  *)
(* revision or, during an outage, nothing.                                 *)
(***************************************************************************)
EXTENDS Integers

CONSTANT Products

VARIABLES
  working,   \* what the editors have: revision and "to be published"
  online,    \* the revision that is public, 0 for none
  shown      \* the revision a visitor is shown now, 0 for none

vars == <<working, online, shown>>

Init ==
  /\ working \in [Products -> [rev: {1}, published: {FALSE}]]
  /\ online = [p \in Products |-> 0]
  /\ shown = [p \in Products |-> 0]

\* Visitors are shown what is online, or nothing: never anything else.
Serve == shown' \in [Products -> Nat] /\ \A p \in Products : shown'[p] \in {0, online'[p]}

\* New revisions of some products; what is public does not move, and a product
\* leaves the public only by Hide.
Change(S) ==
  /\ \A p \in Products \ S : working'[p] = working[p]
  /\ \A p \in S : /\ working'[p].rev = working[p].rev + 1
                  /\ working[p].published => working'[p].published
  /\ UNCHANGED <<online, shown>>

\* Hiding is immediate: the step that hides a product takes it from the public.
Hide(p) ==
  /\ \A q \in Products \ {p} : working'[q] = working[q]
  /\ working'[p].rev \in {working[p].rev, working[p].rev + 1}
  /\ ~working'[p].published
  /\ online' = [online EXCEPT ![p] = 0]
  /\ Serve

\* The working revision of published products goes online, together.
Admit(S) ==
  /\ \A p \in S : working[p].published
  /\ online' = [p \in Products |-> IF p \in S THEN working[p].rev ELSE online[p]]
  /\ Serve
  /\ UNCHANGED working

\* An outage begins or ends.
Refresh == Serve /\ UNCHANGED <<working, online>>

Next ==
  \/ \E S \in SUBSET Products : Change(S) \/ Admit(S)
  \/ \E p \in Products : Hide(p)
  \/ Refresh

Spec == Init /\ [][Next]_vars
=============================================================================
