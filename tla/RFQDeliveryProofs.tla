------------------------- MODULE RFQDeliveryProofs -------------------------
(***************************************************************************)
(* Proofs about RFQDelivery, for any number of requests, forms, mailboxes  *)
(* and delivery keys, and for every combination of faults.                 *)
(***************************************************************************)
EXTENDS RFQDelivery, TLAPS

\* A request and the receipt of its form point at each other; the receipt has
\* the content until the request is anonymised.
ReceiptInv ==
  /\ \A r \in RFQs : Exists(r) =>
       /\ rfq[r].form \in Forms /\ rfq[r].content \in Contents
       /\ receipt[rfq[r].form].rfq = r
  /\ \A f \in Forms : receipt[f].rfq # None =>
       /\ Exists(receipt[f].rfq)
       /\ rfq[receipt[f].rfq].form = f
       /\ receipt[f].text = IF rfq[receipt[f].rfq].private THEN None
                            ELSE rfq[receipt[f].rfq].content
  /\ \A t \in told : Exists(t[3]) /\ rfq[t[3]].form = t[1] /\ rfq[t[3]].content = t[2]
  /\ \A r \in RFQs : rfq[r].private => Exists(r) /\ rfq[r].text = None

\* An attempt is of a request that exists; what is no attempt has no recipients.
AttemptInv ==
  \A k \in Keys :
    /\ Attempted(k) => Exists(attempt[k].rfq)
    /\ ~Attempted(k) => \A m \in Mailboxes : attempt[k].to[m] = "none"

Serving(k, m) == worker.pc \in {"claimed", "done"} /\ worker.key = k /\ worker.to = m

\* What the worker serves is marked as being sent; when there is no process it
\* serves nothing.
WorkInv ==
  /\ up = "down" => worker.pc = "idle"
  /\ \A k \in Keys, m \in Mailboxes : Serving(k, m) => attempt[k].to[m] = "sending"

\* How often a message can have been taken, by the state of its recipient and
\* what the worker knows.
MailInv ==
  \A k \in Keys, m \in Mailboxes :
    /\ mails[k][m] <= 1
    /\ attempt[k].to[m] \in {"none", "pending", "failed"} => mails[k][m] = 0
    /\ attempt[k].to[m] = "accepted" => mails[k][m] = 1
    /\ Serving(k, m) /\ worker.pc = "claimed" => mails[k][m] = 0
    /\ Serving(k, m) /\ worker.pc = "done" /\ worker.result = "failed" => mails[k][m] = 0
    /\ Serving(k, m) /\ worker.pc = "done" /\ worker.result = "accepted" => mails[k][m] = 1

StatusInv ==
  \A k \in Keys : Attempted(k) /\ attempt[k].status # "pending" =>
    attempt[k].status = Aggregate(attempt[k].to)

PrivateInv ==
  \A k \in Keys : Attempted(k) /\ rfq[attempt[k].rfq].private =>
    attempt[k].text = None /\ \A m \in Mailboxes : attempt[k].to[m] \notin {"pending", "sending"}

RFQInv ==
  TypeOK /\ ReceiptInv /\ AttemptInv /\ WorkInv /\ MailInv /\ StatusInv /\ PrivateInv

-----------------------------------------------------------------------------
(* Types *)

LEMMA AggregateType ==
  ASSUME NEW to PROVE Aggregate(to) \in Delivery \cup {"partial"}
BY DEF Aggregate, Delivery, Outcomes

LEMMA InitType == ASSUME RFQAssumption, Init PROVE TypeOK
<1>1. rfq \in [RFQs -> RFQ]
  BY DEF RFQAssumption, Init, RFQ, NoRFQ, Statuses
<1>2. attempt \in [Keys -> Attempt]
  <2>1. NoAttempt \in Attempt
    BY DEF RFQAssumption, Attempt, NoAttempt, Delivery
  <2> QED BY <2>1 DEF Init
<1>3. receipt \in [Forms -> Receipt]
  BY DEF Init, Receipt
<1>4. mails \in [Keys -> [Mailboxes -> Nat]]
  BY DEF Init
<1>5. defaults \in [to: SUBSET Mailboxes, rev: 0..MaxDefaults]
  BY DEF RFQAssumption, Init
<1>6. worker \in Work \cup {At(pc) : pc \in {"idle", "loop", "ready", "return"}}
  BY DEF Init
<1>7. told \subseteq Forms \X Contents \X RFQs /\ calling \subseteq Send
  BY DEF Init
<1>8. post \in [Posts -> [form: Forms, content: Contents] \cup {NoPost}]
  BY DEF Init
<1> QED BY <1>1, <1>2, <1>3, <1>4, <1>5, <1>6, <1>7, <1>8 DEF Init, TypeOK

LEMMA VisitorType == ASSUME RFQAssumption, TypeOK, Visitor PROVE TypeOK'
<1>1. ASSUME NEW p \in Posts, Refuse(p) PROVE TypeOK'
  BY <1>1 DEF TypeOK, Refuse, mailer
<1>2. ASSUME NEW p \in Posts, NEW f \in Forms, NEW c \in Contents, Ask(p, f, c) PROVE TypeOK'
  <2>1. CASE Replayed(f)
    <3>1. receipt[f].rfq \in RFQs
      BY <2>1 DEF TypeOK, Receipt, Replayed
    <3>2. told' \subseteq Forms \X Contents \X RFQs
      BY <1>2, <2>1, <3>1 DEF TypeOK, Ask
    <3> QED BY <1>2, <2>1, <3>2 DEF TypeOK, Ask, mailer
  <2>2. CASE ~Replayed(f)
    <3>1. post' \in [Posts -> [form: Forms, content: Contents] \cup {NoPost}]
      BY <1>2, <2>2 DEF TypeOK, Ask
    <3> QED BY <1>2, <2>2, <3>1 DEF TypeOK, Ask, mailer
  <2> QED BY <2>1, <2>2
<1>3. ASSUME NEW p \in Posts, Submit(p) PROVE TypeOK'
  <2> DEFINE f == post[p].form
             c == post[p].content
  <2>1. f \in Forms /\ c \in Contents
    BY <1>3 DEF TypeOK, Submit
  <2>2. post' \in [Posts -> [form: Forms, content: Contents] \cup {NoPost}]
    BY <1>3 DEF TypeOK, Submit
  <2>3. CASE Replayed(f)
    <3>1. receipt[f].rfq \in RFQs
      BY <2>1, <2>3 DEF TypeOK, Receipt, Replayed
    <3>2. told' \subseteq Forms \X Contents \X RFQs
      BY <1>3, <2>1, <2>3, <3>1 DEF TypeOK, Submit
    <3> QED BY <1>3, <2>2, <2>3, <3>2 DEF TypeOK, Submit, mailer
  <2>4. CASE ~Replayed(f)
    <3>1. PICK r \in RFQs :
            /\ MaxRev > 0
            /\ rfq' = [rfq EXCEPT ![r] = [form |-> f, content |-> c, text |-> c, rev |-> 1,
                                          status |-> "new", to |-> defaults.to, private |-> FALSE]]
            /\ receipt' = [receipt EXCEPT ![f] = [text |-> c, rfq |-> r]]
            /\ told' = told \cup {<<f, c, r>>}
      BY <1>3, <2>4 DEF Submit
    <3>2. 1 \in 0..MaxRev
      BY <3>1 DEF RFQAssumption
    <3>3. rfq' \in [RFQs -> RFQ]
      BY <2>1, <3>1, <3>2 DEF TypeOK, RFQ, Statuses
    <3>4. receipt' \in [Forms -> Receipt]
      BY <2>1, <3>1 DEF TypeOK, Receipt
    <3>5. told' \subseteq Forms \X Contents \X RFQs
      BY <2>1, <3>1 DEF TypeOK
    <3> QED BY <1>3, <2>2, <3>3, <3>4, <3>5 DEF TypeOK, Submit, mailer
  <2> QED BY <2>3, <2>4
<1> QED BY <1>1, <1>2, <1>3 DEF Visitor

LEMMA NextRev ==
  ASSUME RFQAssumption, TypeOK, NEW r \in RFQs, rfq[r].rev < MaxRev
  PROVE rfq[r].rev + 1 \in 0..MaxRev
BY DEF RFQAssumption, TypeOK, RFQ

LEMMA AnonymizedType ==
  ASSUME NEW row \in RFQ, row.rev + 1 \in 0..MaxRev PROVE Anonymized(row) \in RFQ
BY DEF RFQ, Anonymized

LEMMA ScrubbedType == ASSUME NEW a \in Attempt PROVE AttemptScrubbed(a) \in Attempt
<1>1. Withdrawn(a.to) \in [Mailboxes -> Delivery]
  BY DEF Attempt, Withdrawn, Delivery, Outcomes
<1> QED BY <1>1, AggregateType DEF Attempt, AttemptScrubbed

LEMMA StaffType == ASSUME RFQAssumption, TypeOK, Staff PROVE TypeOK'
<1>1. ASSUME NEW to \in SUBSET Mailboxes, UpdateRFQRecipientSettings(to) PROVE TypeOK'
  <2>1. defaults' \in [to: SUBSET Mailboxes, rev: 0..MaxDefaults]
    BY <1>1 DEF RFQAssumption, TypeOK, UpdateRFQRecipientSettings
  <2> QED BY <1>1, <2>1 DEF TypeOK, UpdateRFQRecipientSettings, public, mailer
<1>2. ASSUME NEW r \in RFQs, NEW next \in Statuses, UpdateRFQStatus(r, next) PROVE TypeOK'
  <2>1. rfq' \in [RFQs -> RFQ]
    BY <1>2, NextRev DEF TypeOK, RFQ, UpdateRFQStatus, Revised
  <2> QED BY <1>2, <2>1 DEF TypeOK, UpdateRFQStatus, public, mailer
<1>3. ASSUME NEW r \in RFQs, NEW to \in SUBSET Mailboxes, ReplaceRFQRecipients(r, to) PROVE TypeOK'
  <2>1. rfq' \in [RFQs -> RFQ]
    BY <1>3, NextRev DEF TypeOK, RFQ, ReplaceRFQRecipients, Revised
  <2> QED BY <1>3, <2>1 DEF TypeOK, ReplaceRFQRecipients, public, mailer
<1>4. ASSUME NEW r \in RFQs, AnonymizeRFQ(r) PROVE TypeOK'
  <2>1. rfq' \in [RFQs -> RFQ]
    <3>1. rfq[r].rev + 1 \in 0..MaxRev
      BY <1>4, NextRev DEF AnonymizeRFQ, Revised
    <3> QED BY <1>4, <3>1, AnonymizedType DEF TypeOK, AnonymizeRFQ
  <2>2. receipt' \in [Forms -> Receipt]
    <3>1. ASSUME NEW f \in Forms PROVE [receipt[f] EXCEPT !.text = None] \in Receipt
      BY DEF TypeOK, Receipt
    <3>2. receipt' = ReceiptScrubbed(r)
      BY <1>4 DEF AnonymizeRFQ
    <3> QED BY <3>1, <3>2 DEF TypeOK, ReceiptScrubbed
  <2>3. attempt' \in [Keys -> Attempt]
    BY <1>4, ScrubbedType DEF TypeOK, AnonymizeRFQ
  <2> QED BY <1>4, <2>1, <2>2, <2>3 DEF TypeOK, AnonymizeRFQ, mailer
<1> QED BY <1>1, <1>2, <1>3, <1>4 DEF Staff

LEMMA NewAttemptType ==
  ASSUME TypeOK, NEW s \in Send PROVE NewAttempt(s) \in Attempt
BY DEF TypeOK, RFQ, Send, NewAttempt, Attempt, Delivery

LEMMA ServerType == ASSUME RFQAssumption, TypeOK, Server PROVE TypeOK'
<1>1. ASSUME NEW s \in Send, CreateDelivery(s) PROVE TypeOK'
  <2>1. attempt' \in [Keys -> Attempt]
    BY <1>1, NewAttemptType DEF TypeOK, CreateDelivery, Send
  <2> QED BY <1>1, <2>1 DEF TypeOK, CreateDelivery, public, mailer
<1>2. ASSUME NEW s \in calling, WakeWorker(s) PROVE TypeOK'
  BY <1>2 DEF TypeOK, WakeWorker, Woken, public
<1>3. ASSUME NEW r \in RFQs, NEW rev \in 1..MaxRev, NEW k \in Keys
      PROVE [rfq |-> r, rev |-> rev, key |-> k] \in Send
  BY DEF RFQAssumption, Send
<1> QED BY <1>1, <1>2, <1>3 DEF Server

LEMMA ClaimedType ==
  ASSUME NEW a \in Attempt, NEW m \in Mailboxes PROVE Claimed(a, m) \in Attempt
BY DEF Attempt, Claimed, Delivery, Outcomes

LEMMA CompletedType ==
  ASSUME NEW a \in Attempt, NEW m \in Mailboxes, NEW outcome \in Outcomes
  PROVE Completed(a, m, outcome) \in Attempt
<1> DEFINE to == [a.to EXCEPT ![m] = outcome]
<1>1. to \in [Mailboxes -> Delivery]
  BY DEF Attempt, Delivery
<1>2. Completed(a, m, outcome) = [a EXCEPT !.to = to, !.status = Aggregate(to)]
  BY DEF Completed
<1> HIDE DEF to
<1> QED BY <1>1, <1>2, AggregateType DEF Attempt

LEMMA WorkerType == ASSUME RFQAssumption, TypeOK, Worker \/ WorkerFails PROVE TypeOK'
<1>1. CASE TakeWake \/ Loop \/ NothingToClaim \/ Return \/ WorkerFails
  BY <1>1 DEF TypeOK, TakeWake, Loop, NothingToClaim, Return, WorkerFails, ClaimFails,
              CompletionFails, public
<1>2. CASE CompleteDelivery
  <2>1. CASE worker.pc = "done" /\ attempt[worker.key].to[worker.to] = "sending"
    <3>1. worker \in Work
      BY <2>1 DEF TypeOK, At
    <3>2. Completed(attempt[worker.key], worker.to, worker.result) \in Attempt
      BY <3>1, CompletedType DEF TypeOK, Work
    <3>3. attempt' = [attempt EXCEPT ![worker.key] = Completed(@, worker.to, worker.result)]
      BY <1>2, <2>1 DEF CompleteDelivery
    <3>4. attempt' \in [Keys -> Attempt]
      BY <3>2, <3>3 DEF TypeOK
    <3> QED BY <1>2, <2>1, <3>4 DEF TypeOK, CompleteDelivery, public
  <2>2. CASE ~(attempt[worker.key].to[worker.to] = "sending")
    BY <1>2, <2>2 DEF TypeOK, CompleteDelivery, public
  <2> QED BY <1>2, <2>1, <2>2 DEF CompleteDelivery
<1>3. ASSUME NEW k \in Keys, NEW m \in Mailboxes, Claim(k, m) PROVE TypeOK'
  <2>1. attempt' \in [Keys -> Attempt]
    BY <1>3, ClaimedType DEF TypeOK, Claim
  <2>2. worker' \in Work
    BY <1>3 DEF Claim, Work, Outcomes
  <2> QED BY <1>3, <2>1, <2>2 DEF TypeOK, Claim, public
<1>4. ASSUME NEW taken \in BOOLEAN, Transmit(taken) PROVE TypeOK'
  <2>1. worker \in Work
    BY <1>4 DEF TypeOK, Transmit, At
  <2>2. PICK result \in SendResult(taken) : worker' = [worker EXCEPT !.pc = "done", !.result = result]
    BY <1>4 DEF Transmit
  <2>3. worker' \in Work
    BY <2>1, <2>2 DEF Work, SendResult, Outcomes
  <2>4. mails' \in [Keys -> [Mailboxes -> Nat]]
    BY <1>4, <2>1 DEF TypeOK, Transmit, Work
  <2> QED BY <1>4, <2>3, <2>4 DEF TypeOK, Transmit, public
<1> QED BY <1>1, <1>2, <1>3, <1>4 DEF Worker

LEMMA ReconciledType ==
  ASSUME NEW a \in Attempt PROVE Reconciled(a) \in Attempt
BY DEF Attempt, Reconciled, Interrupted, Delivery, Outcomes

LEMMA ProcessType == ASSUME RFQAssumption, TypeOK, Process PROVE TypeOK'
<1>1. CASE BeginDrain
  BY <1>1 DEF TypeOK, BeginDrain, public, mailer
<1>2. CASE Gone
  BY <1>2 DEF TypeOK, Gone
<1>3. CASE Restart
  <2>1. attempt' \in [Keys -> Attempt]
    BY <1>3, ReconciledType DEF TypeOK, Restart
  <2> QED BY <1>3, <2>1 DEF TypeOK, Restart, public
<1> QED BY <1>1, <1>2, <1>3 DEF Process, Stop, Crash

LEMMA TypeStep == ASSUME RFQAssumption, TypeOK, [Next]_vars PROVE TypeOK'
<1>1. CASE UNCHANGED vars
  BY <1>1 DEF TypeOK, vars, public, mailer
<1> QED BY <1>1, VisitorType, StaffType, ServerType, WorkerType, ProcessType DEF Next

-----------------------------------------------------------------------------
(* What a step can do to the rows *)

ReviseOnly(r) ==
  \/ \E next \in Statuses : UpdateRFQStatus(r, next)
  \/ \E to \in SUBSET Mailboxes : ReplaceRFQRecipients(r, to)

\* A new status or new recipients leave the rest of the row alone.
LEMMA ReviseEffect ==
  ASSUME RFQAssumption, TypeOK, NEW r \in RFQs, ReviseOnly(r)
  PROVE  /\ \A q \in RFQs : /\ (rfq'[q].rev > 0) <=> Exists(q)
                            /\ rfq'[q].form = rfq[q].form /\ rfq'[q].content = rfq[q].content
                            /\ rfq'[q].text = rfq[q].text /\ rfq'[q].private = rfq[q].private
         /\ UNCHANGED <<receipt, told, attempt, worker, mails>>
<1>1. rfq \in [RFQs -> RFQ] /\ rfq[r].rev \in Int /\ Exists(r)
  <2>1. Exists(r)
    BY DEF ReviseOnly, UpdateRFQStatus, ReplaceRFQRecipients, Revised
  <2> QED BY <2>1 DEF RFQAssumption, TypeOK, RFQ
<1>2. ASSUME NEW next \in Statuses, UpdateRFQStatus(r, next)
      PROVE /\ \A q \in RFQs : /\ (rfq'[q].rev > 0) <=> Exists(q)
                               /\ rfq'[q].form = rfq[q].form /\ rfq'[q].content = rfq[q].content
                               /\ rfq'[q].text = rfq[q].text /\ rfq'[q].private = rfq[q].private
            /\ UNCHANGED <<receipt, told, attempt, worker, mails>>
  BY <1>1, <1>2 DEF UpdateRFQStatus, Exists, RFQ, public, mailer
<1>3. ASSUME NEW to \in SUBSET Mailboxes, ReplaceRFQRecipients(r, to)
      PROVE /\ \A q \in RFQs : /\ (rfq'[q].rev > 0) <=> Exists(q)
                               /\ rfq'[q].form = rfq[q].form /\ rfq'[q].content = rfq[q].content
                               /\ rfq'[q].text = rfq[q].text /\ rfq'[q].private = rfq[q].private
            /\ UNCHANGED <<receipt, told, attempt, worker, mails>>
  BY <1>1, <1>3 DEF ReplaceRFQRecipients, Exists, RFQ, public, mailer
<1> QED BY <1>2, <1>3 DEF ReviseOnly

\* The row, the receipt and the attempts of an anonymised request.
LEMMA AnonymizeEffect ==
  ASSUME RFQAssumption, TypeOK, NEW r \in RFQs, AnonymizeRFQ(r)
  PROVE  /\ Exists(r) /\ ~rfq[r].private
         /\ rfq'[r].private /\ rfq'[r].text = None
         /\ \A q \in RFQs : /\ (rfq'[q].rev > 0) <=> Exists(q)
                            /\ rfq'[q].form = rfq[q].form /\ rfq'[q].content = rfq[q].content
                            /\ q # r => rfq'[q] = rfq[q]
         /\ \A f \in Forms : /\ receipt'[f].rfq = receipt[f].rfq
                             /\ receipt'[f].text = IF receipt[f].rfq = r THEN None ELSE receipt[f].text
         /\ \A k \in Keys : attempt'[k] = IF attempt[k].rfq = r THEN AttemptScrubbed(attempt[k])
                                          ELSE attempt[k]
         /\ UNCHANGED <<told, worker, mails>>
<1>1. rfq \in [RFQs -> RFQ] /\ rfq[r].rev \in Int /\ Exists(r) /\ ~rfq[r].private
  BY DEF RFQAssumption, TypeOK, RFQ, AnonymizeRFQ, Revised
<1>2. /\ rfq'[r].private /\ rfq'[r].text = None
      /\ \A q \in RFQs : /\ (rfq'[q].rev > 0) <=> Exists(q)
                         /\ rfq'[q].form = rfq[q].form /\ rfq'[q].content = rfq[q].content
                         /\ q # r => rfq'[q] = rfq[q]
  BY <1>1 DEF AnonymizeRFQ, Anonymized, Exists, RFQ
<1>3. \A f \in Forms : /\ receipt'[f].rfq = receipt[f].rfq
                       /\ receipt'[f].text = IF receipt[f].rfq = r THEN None ELSE receipt[f].text
  BY DEF TypeOK, Receipt, AnonymizeRFQ, ReceiptScrubbed
<1>4. \A k \in Keys : attempt'[k] = IF attempt[k].rfq = r THEN AttemptScrubbed(attempt[k])
                                    ELSE attempt[k]
  BY DEF AnonymizeRFQ
<1>5. UNCHANGED <<told, worker, mails>>
  BY DEF AnonymizeRFQ, mailer
<1> QED BY <1>1, <1>2, <1>3, <1>4, <1>5

LEMMA ScrubbedFields ==
  ASSUME NEW a \in Attempt
  PROVE  /\ AttemptScrubbed(a).rfq = a.rfq /\ AttemptScrubbed(a).text = None
         /\ AttemptScrubbed(a).to = Withdrawn(a.to)
         /\ AttemptScrubbed(a).status = Aggregate(Withdrawn(a.to))
BY DEF Attempt, AttemptScrubbed

\* A first submission adds one request and its receipt.
LEMMA SubmitEffect ==
  ASSUME RFQAssumption, TypeOK, NEW p \in Posts, Submit(p), ~Replayed(post[p].form)
  PROVE  \E r \in RFQs :
           /\ ~Exists(r) /\ rfq'[r].rev > 0
           /\ rfq'[r].form = post[p].form /\ rfq'[r].content = post[p].content
           /\ ~rfq'[r].private
           /\ \A q \in RFQs : q # r => rfq'[q] = rfq[q]
           /\ post[p].form \in Forms /\ post[p].content \in Contents
           /\ receipt'[post[p].form] = [text |-> post[p].content, rfq |-> r]
           /\ \A f \in Forms : f # post[p].form => receipt'[f] = receipt[f]
           /\ told' = told \cup {<<post[p].form, post[p].content, r>>}
<1>1. post[p].form \in Forms /\ post[p].content \in Contents
  BY DEF TypeOK, Submit
<1>2. PICK r \in RFQs :
        /\ ~Exists(r)
        /\ rfq' = [rfq EXCEPT ![r] = [form |-> post[p].form, content |-> post[p].content,
                                      text |-> post[p].content, rev |-> 1, status |-> "new",
                                      to |-> defaults.to, private |-> FALSE]]
        /\ receipt' = [receipt EXCEPT ![post[p].form] = [text |-> post[p].content, rfq |-> r]]
        /\ told' = told \cup {<<post[p].form, post[p].content, r>>}
  BY DEF Submit
<1>3. rfq'[r].rev > 0 /\ ~rfq'[r].private
      /\ rfq'[r].form = post[p].form /\ rfq'[r].content = post[p].content
  BY <1>2 DEF TypeOK, Exists
<1> QED BY <1>1, <1>2, <1>3 DEF TypeOK

-----------------------------------------------------------------------------
(* Requests and receipts *)

\* An answer that repeats what a receipt already stands for adds nothing new.
LEMMA ToldAgain ==
  ASSUME ReceiptInv, UNCHANGED <<rfq, receipt>>, NEW f, NEW c, NEW r,
         told' = told \cup {<<f, c, r>>}, Exists(r), rfq[r].form = f, rfq[r].content = c
  PROVE  ReceiptInv'
<1>1. \A t \in told' : Exists(t[3]) /\ rfq[t[3]].form = t[1] /\ rfq[t[3]].content = t[2]
  <2> TAKE t \in told'
  <2>1. CASE t \in told
    BY <2>1 DEF ReceiptInv
  <2>2. CASE t = <<f, c, r>>
    BY <2>2
  <2> QED BY <2>1, <2>2
<1>2. (\A t \in told : Exists(t[3]) /\ rfq[t[3]].form = t[1] /\ rfq[t[3]].content = t[2])'
  BY <1>1 DEF Exists
<1>3. (\A q \in RFQs : Exists(q) => /\ rfq[q].form \in Forms /\ rfq[q].content \in Contents
                                   /\ receipt[rfq[q].form].rfq = q)'
  BY DEF ReceiptInv, Exists
<1>4. (\A g \in Forms : receipt[g].rfq # None =>
         /\ Exists(receipt[g].rfq)
         /\ rfq[receipt[g].rfq].form = g
         /\ receipt[g].text = IF rfq[receipt[g].rfq].private THEN None
                              ELSE rfq[receipt[g].rfq].content)'
  BY DEF ReceiptInv, Exists
<1>5. (\A q \in RFQs : rfq[q].private => Exists(q) /\ rfq[q].text = None)'
  BY DEF ReceiptInv, Exists
<1> QED BY <1>2, <1>3, <1>4, <1>5 DEF ReceiptInv

LEMMA ReceiptStep ==
  ASSUME RFQAssumption, TypeOK, ReceiptInv, [Next]_vars PROVE ReceiptInv'
<1>1. CASE UNCHANGED <<rfq, receipt, told>>
  BY <1>1 DEF ReceiptInv, Exists
<1>2. ASSUME NEW p \in Posts, NEW f \in Forms, NEW c \in Contents, Ask(p, f, c),
             Replayed(f)
      PROVE ReceiptInv'
  <2>1. told' = told \cup {<<f, c, receipt[f].rfq>>} /\ UNCHANGED <<rfq, receipt>>
        /\ receipt[f].text = c
    BY <1>2 DEF Ask, SameContent
  <2>2. Exists(receipt[f].rfq) /\ rfq[receipt[f].rfq].form = f /\ rfq[receipt[f].rfq].content = c
    BY <1>2, <2>1 DEF ReceiptInv, Replayed, RFQAssumption
  <2> QED BY <2>1, <2>2, ToldAgain
<1>3. ASSUME NEW p \in Posts, Submit(p) PROVE ReceiptInv'
  <2> DEFINE f == post[p].form
             c == post[p].content
  <2>0. f \in Forms /\ c \in Contents
    BY <1>3 DEF TypeOK, Submit
  <2>1. CASE Replayed(f)
    <3>1. UNCHANGED <<rfq, receipt>>
          /\ told' \in {told, IF receipt[f].text = c THEN told \cup {<<f, c, receipt[f].rfq>>} ELSE told}
      BY <1>3, <2>1 DEF Submit, SameContent
    <3>2. CASE receipt[f].text = c
      <4>1. Exists(receipt[f].rfq) /\ rfq[receipt[f].rfq].form = f /\ rfq[receipt[f].rfq].content = c
        BY <2>0, <2>1, <3>2 DEF ReceiptInv, Replayed, RFQAssumption
      <4>2. CASE told' = told
        BY <3>1, <4>2 DEF ReceiptInv, Exists
      <4>3. CASE told' = told \cup {<<f, c, receipt[f].rfq>>}
        <5> HIDE DEF f, c
        <5> QED BY <3>1, <4>1, <4>3, ToldAgain
      <4> QED BY <3>1, <3>2, <4>2, <4>3
    <3> QED BY <3>1, <3>2 DEF ReceiptInv, Exists
  <2>2. CASE ~Replayed(f)
    <3>1. PICK r \in RFQs :
           /\ ~Exists(r) /\ rfq'[r].rev > 0
           /\ rfq'[r].form = f /\ rfq'[r].content = c /\ ~rfq'[r].private
           /\ \A q \in RFQs : q # r => rfq'[q] = rfq[q]
           /\ receipt'[f] = [text |-> c, rfq |-> r]
           /\ \A g \in Forms : g # f => receipt'[g] = receipt[g]
           /\ told' = told \cup {<<f, c, r>>}
      BY <1>3, <2>2, SubmitEffect
    <3>2. \A q \in RFQs : Exists(q) => q # r /\ rfq'[q] = rfq[q] /\ rfq'[q].rev > 0
      BY <3>1 DEF Exists
    <3>3. \A q \in RFQs : rfq'[q].rev > 0 =>
             /\ rfq'[q].form \in Forms /\ rfq'[q].content \in Contents
             /\ receipt'[rfq'[q].form].rfq = q
      <4>1. ASSUME NEW q \in RFQs, rfq'[q].rev > 0, q # r PROVE Exists(q) /\ rfq[q].form # f
        BY <2>2, <3>1, <4>1 DEF ReceiptInv, Exists, Replayed, RFQAssumption
      <4> QED BY <2>0, <3>1, <4>1 DEF ReceiptInv, Exists
    <3>4. \A g \in Forms : receipt'[g].rfq # None =>
             /\ rfq'[receipt'[g].rfq].rev > 0 /\ rfq'[receipt'[g].rfq].form = g
             /\ receipt'[g].text = IF rfq'[receipt'[g].rfq].private THEN None
                                   ELSE rfq'[receipt'[g].rfq].content
      <4>1. ASSUME NEW g \in Forms, g # f, receipt[g].rfq # None
            PROVE  receipt[g].rfq \in RFQs /\ Exists(receipt[g].rfq)
        BY <4>1 DEF TypeOK, Receipt, ReceiptInv
      <4> QED BY <2>0, <3>1, <3>2, <4>1 DEF ReceiptInv, Exists
    <3>5. \A t \in told' : rfq'[t[3]].rev > 0 /\ rfq'[t[3]].form = t[1] /\ rfq'[t[3]].content = t[2]
      <4>1. ASSUME NEW t \in told PROVE rfq'[t[3]].rev > 0 /\ rfq'[t[3]].form = t[1] /\ rfq'[t[3]].content = t[2]
        <5>1. t[3] \in RFQs
          BY DEF TypeOK
        <5>2. Exists(t[3]) /\ rfq[t[3]].form = t[1] /\ rfq[t[3]].content = t[2]
          BY DEF ReceiptInv
        <5> QED BY <3>2, <5>1, <5>2
      <4>2. <<f, c, r>>[1] = f /\ <<f, c, r>>[2] = c /\ <<f, c, r>>[3] = r
        OBVIOUS
      <4> QED BY <3>1, <4>1, <4>2
    <3>6. \A q \in RFQs : rfq'[q].private => rfq'[q].rev > 0 /\ rfq'[q].text = None
      BY <3>1, <3>2 DEF ReceiptInv, Exists
    <3> QED BY <3>3, <3>4, <3>5, <3>6 DEF ReceiptInv, Exists
  <2> QED BY <2>1, <2>2
<1>4. ASSUME \A q \in RFQs : /\ (rfq'[q].rev > 0) <=> Exists(q)
                             /\ rfq'[q].form = rfq[q].form /\ rfq'[q].content = rfq[q].content
                             /\ rfq[q].private => rfq'[q].private
                             /\ rfq'[q].private => Exists(q) /\ rfq'[q].text = None,
             \A f \in Forms : /\ receipt'[f].rfq = receipt[f].rfq
                              /\ receipt[f].rfq # None =>
                                   receipt'[f].text = IF rfq'[receipt[f].rfq].private THEN None
                                                      ELSE receipt[f].text,
             UNCHANGED told
      PROVE ReceiptInv'
  <2>1. \A q \in RFQs : rfq'[q].rev > 0 =>
           /\ rfq'[q].form \in Forms /\ rfq'[q].content \in Contents
           /\ receipt'[rfq'[q].form].rfq = q
    BY <1>4 DEF ReceiptInv
  <2>2. ASSUME NEW f \in Forms, receipt'[f].rfq # None
        PROVE  /\ rfq'[receipt'[f].rfq].rev > 0 /\ rfq'[receipt'[f].rfq].form = f
               /\ receipt'[f].text = IF rfq'[receipt'[f].rfq].private THEN None
                                     ELSE rfq'[receipt'[f].rfq].content
    <3>1. receipt[f].rfq \in RFQs /\ receipt'[f].rfq = receipt[f].rfq /\ receipt[f].rfq # None
      BY <1>4, <2>2 DEF TypeOK, Receipt
    <3> DEFINE r == receipt[f].rfq
    <3>2. Exists(r) /\ rfq[r].form = f
          /\ receipt[f].text = IF rfq[r].private THEN None ELSE rfq[r].content
      BY <3>1 DEF ReceiptInv
    <3>3. rfq'[r].rev > 0 /\ rfq'[r].form = f /\ rfq'[r].content = rfq[r].content
          /\ (rfq[r].private => rfq'[r].private)
      BY <1>4, <3>1, <3>2
    <3>4. receipt'[f].text = IF rfq'[r].private THEN None ELSE receipt[f].text
      BY <1>4, <3>1
    <3> HIDE DEF r
    <3> QED BY <3>1, <3>2, <3>3, <3>4 DEF r
  <2>3. ASSUME NEW t \in told
        PROVE rfq'[t[3]].rev > 0 /\ rfq'[t[3]].form = t[1] /\ rfq'[t[3]].content = t[2]
    <3>1. t[3] \in RFQs
      BY DEF TypeOK
    <3>2. Exists(t[3]) /\ rfq[t[3]].form = t[1] /\ rfq[t[3]].content = t[2]
      BY DEF ReceiptInv
    <3> QED BY <1>4, <3>1, <3>2
  <2>4. \A q \in RFQs : rfq'[q].private => rfq'[q].rev > 0 /\ rfq'[q].text = None
    BY <1>4
  <2> QED BY <1>4, <2>1, <2>2, <2>3, <2>4 DEF ReceiptInv, Exists
<1>5. ASSUME NEW r \in RFQs, ReviseOnly(r) \/ AnonymizeRFQ(r) PROVE ReceiptInv'
  <2>0. \A f \in Forms : receipt[f].rfq # None =>
          /\ receipt[f].rfq \in RFQs
          /\ rfq[receipt[f].rfq].private => receipt[f].text = None
    BY DEF TypeOK, Receipt, ReceiptInv
  <2>1. CASE ReviseOnly(r)
    <3>1. /\ \A q \in RFQs : /\ (rfq'[q].rev > 0) <=> Exists(q)
                             /\ rfq'[q].form = rfq[q].form /\ rfq'[q].content = rfq[q].content
                             /\ rfq'[q].text = rfq[q].text /\ rfq'[q].private = rfq[q].private
          /\ UNCHANGED <<receipt, told>>
      BY <2>1, ReviseEffect
    <3>2. \A q \in RFQs : rfq[q].private => Exists(q) /\ rfq[q].text = None
      BY DEF ReceiptInv
    <3>3. \A q \in RFQs : /\ rfq[q].private => rfq'[q].private
                          /\ rfq'[q].private => Exists(q) /\ rfq'[q].text = None
      BY <3>1, <3>2
    <3>4. \A f \in Forms : /\ receipt'[f].rfq = receipt[f].rfq
                           /\ receipt[f].rfq # None =>
                                receipt'[f].text = IF rfq'[receipt[f].rfq].private THEN None
                                                   ELSE receipt[f].text
      BY <2>0, <3>1
    <3> QED BY <1>4, <3>1, <3>3, <3>4
  <2>2. CASE AnonymizeRFQ(r)
    <3>1. /\ Exists(r) /\ rfq'[r].private /\ rfq'[r].text = None
          /\ \A q \in RFQs : /\ (rfq'[q].rev > 0) <=> Exists(q)
                             /\ rfq'[q].form = rfq[q].form /\ rfq'[q].content = rfq[q].content
                             /\ q # r => rfq'[q] = rfq[q]
      BY <2>2, AnonymizeEffect
    <3>2. \A f \in Forms : /\ receipt'[f].rfq = receipt[f].rfq
                           /\ receipt'[f].text = IF receipt[f].rfq = r THEN None ELSE receipt[f].text
      BY <2>2, AnonymizeEffect
    <3>3. UNCHANGED told
      BY <2>2, AnonymizeEffect
    <3>4. \A q \in RFQs : /\ rfq[q].private => rfq'[q].private
                          /\ rfq'[q].private => Exists(q) /\ rfq'[q].text = None
      BY <3>1 DEF ReceiptInv
    <3>5. \A f \in Forms : receipt[f].rfq # None =>
            receipt'[f].text = IF rfq'[receipt[f].rfq].private THEN None ELSE receipt[f].text
      BY <2>0, <3>1, <3>2
    <3> QED BY <1>4, <3>1, <3>2, <3>3, <3>4, <3>5
  <2> QED BY <1>5, <2>1, <2>2
<1>6. ASSUME Server \/ Worker \/ WorkerFails \/ Process PROVE UNCHANGED <<rfq, receipt, told>>
  <2>1. CASE Server
    BY <2>1 DEF Server, CreateDelivery, WakeWorker, public
  <2>2. CASE Worker
    BY <2>2 DEF Worker, TakeWake, Loop, NothingToClaim, Return, CompleteDelivery, Claim, Transmit, public
  <2>3. CASE WorkerFails \/ Process
    BY <2>3 DEF WorkerFails, ClaimFails, CompletionFails, Process, BeginDrain, Stop, Crash, Gone,
                Restart, public
  <2> QED BY <1>6, <2>1, <2>2, <2>3
<1>7. CASE Visitor
  <2>1. ASSUME NEW p \in Posts, Refuse(p) PROVE UNCHANGED <<rfq, receipt, told>>
    BY <2>1 DEF Refuse
  <2>2. ASSUME NEW p \in Posts, NEW f \in Forms, NEW c \in Contents, Ask(p, f, c), ~Replayed(f)
        PROVE UNCHANGED <<rfq, receipt, told>>
    BY <2>2 DEF Ask
  <2> QED BY <1>7, <1>1, <1>2, <1>3, <2>1, <2>2 DEF Visitor
<1>8. CASE Staff
  <2>1. ASSUME NEW to \in SUBSET Mailboxes, UpdateRFQRecipientSettings(to)
        PROVE UNCHANGED <<rfq, receipt, told>>
    BY <2>1 DEF UpdateRFQRecipientSettings, public
  <2> QED BY <1>8, <1>1, <1>5, <2>1 DEF Staff, ReviseOnly
<1>9. CASE UNCHANGED vars
  BY <1>1, <1>9 DEF vars, public
<1> QED BY <1>1, <1>6, <1>7, <1>8, <1>9 DEF Next

-----------------------------------------------------------------------------
(* Attempts and mail *)

\* What a step can do to a recipient of an attempt, as far as mail goes.
LEMMA ReconciledFields ==
  ASSUME NEW a \in Attempt
  PROVE  /\ Reconciled(a).rfq = a.rfq /\ Reconciled(a).text = a.text
         /\ Reconciled(a).to = Interrupted(a.to)
         /\ Reconciled(a).status = IF \E m \in Mailboxes : Interrupted(a.to)[m] = "unknown"
                                   THEN "unknown" ELSE a.status
BY DEF Attempt, Reconciled

LEMMA ClaimedFields ==
  ASSUME NEW a \in Attempt, NEW m \in Mailboxes
  PROVE  /\ Claimed(a, m).rfq = a.rfq /\ Claimed(a, m).text = a.text
         /\ Claimed(a, m).to = [a.to EXCEPT ![m] = "sending"]
         /\ Claimed(a, m).status = IF \E n \in Mailboxes : a.to[n] = "unknown"
                                   THEN "unknown" ELSE "sending"
BY DEF Attempt, Claimed

LEMMA CompletedFields ==
  ASSUME NEW a \in Attempt, NEW m \in Mailboxes, NEW outcome \in Outcomes
  PROVE  /\ Completed(a, m, outcome).rfq = a.rfq /\ Completed(a, m, outcome).text = a.text
         /\ Completed(a, m, outcome).to = [a.to EXCEPT ![m] = outcome]
         /\ Completed(a, m, outcome).status = Aggregate([a.to EXCEPT ![m] = outcome])
<1> DEFINE to == [a.to EXCEPT ![m] = outcome]
<1>1. Completed(a, m, outcome) = [a EXCEPT !.to = to, !.status = Aggregate(to)]
  BY DEF Completed
<1> HIDE DEF to
<1>2. /\ Completed(a, m, outcome).rfq = a.rfq /\ Completed(a, m, outcome).text = a.text
      /\ Completed(a, m, outcome).to = to /\ Completed(a, m, outcome).status = Aggregate(to)
  BY <1>1 DEF Attempt
<1> QED BY <1>2 DEF to

LEMMA NewAttemptFields ==
  ASSUME NEW s
  PROVE  /\ NewAttempt(s).rfq = s.rfq /\ NewAttempt(s).status = "pending"
         /\ NewAttempt(s).to = [m \in Mailboxes |-> IF m \in rfq[s.rfq].to THEN "pending" ELSE "none"]
BY DEF NewAttempt

\* The steps that touch attempts, or what the worker does about them.
LEMMA Touch ==
  ASSUME RFQAssumption, [Next]_vars
  PROVE  \/ UNCHANGED <<attempt, worker, mails>>
         \/ \E r \in RFQs : AnonymizeRFQ(r)
         \/ \E s \in Send : CreateDelivery(s)
         \/ UNCHANGED <<attempt, mails>> /\ worker'.pc \in {"idle", "loop", "ready", "return"}
         \/ \E k \in Keys, m \in Mailboxes : Claim(k, m)
         \/ \E taken \in BOOLEAN : Transmit(taken)
         \/ CompleteDelivery
         \/ Restart
<1>1. CASE UNCHANGED vars
  BY <1>1 DEF vars, mailer
<1>2. CASE Visitor
  BY <1>2 DEF Visitor, Refuse, Submit, Ask, mailer
<1>3. CASE Staff
  BY <1>3 DEF Staff, UpdateRFQRecipientSettings, UpdateRFQStatus, ReplaceRFQRecipients, mailer
<1>4. CASE Server
  <2>1. ASSUME NEW s \in calling, WakeWorker(s) PROVE UNCHANGED <<attempt, worker, mails>>
    BY <2>1 DEF WakeWorker
  <2>2. ASSUME NEW r \in RFQs, NEW rev \in 1..MaxRev, NEW k \in Keys
        PROVE [rfq |-> r, rev |-> rev, key |-> k] \in Send
    BY DEF RFQAssumption, Send
  <2> QED BY <1>4, <2>1, <2>2 DEF Server
<1>5. CASE Worker
  BY <1>5 DEF Worker, TakeWake, Loop, NothingToClaim, Return, At
<1>6. CASE WorkerFails \/ Process
  BY <1>6 DEF WorkerFails, ClaimFails, CompletionFails, Process, BeginDrain, Stop, Crash, Gone, At, mailer
<1> QED BY <1>1, <1>2, <1>3, <1>4, <1>5, <1>6 DEF Next

\* A known key changes nothing; a new one adds an attempt for a request that is
\* not anonymised.
LEMMA CreateEffect ==
  ASSUME RFQAssumption, TypeOK, NEW s \in Send, CreateDelivery(s)
  PROVE  /\ UNCHANGED <<rfq, worker, mails>>
         /\ \/ UNCHANGED attempt
            \/ /\ s.key \in Keys /\ ~Attempted(s.key)
               /\ s.rfq \in RFQs /\ s.rfq # None /\ Exists(s.rfq) /\ ~rfq[s.rfq].private
               /\ attempt'[s.key] = NewAttempt(s)
               /\ \A k \in Keys : k # s.key => attempt'[k] = attempt[k]
<1>1. UNCHANGED <<rfq, worker, mails>>
  BY DEF CreateDelivery, mailer
<1>2. CASE Attempted(s.key)
  BY <1>1, <1>2 DEF CreateDelivery
<1>3. CASE ~Attempted(s.key)
  <2>1. attempt' = [attempt EXCEPT ![s.key] = NewAttempt(s)] /\ Sendable(s)
    BY <1>3 DEF CreateDelivery
  <2>2. s.key \in Keys /\ s.rfq \in RFQs /\ s.rev \in 1..MaxRev
    BY DEF Send
  <2>3. s.rfq # None
    BY <2>2 DEF RFQAssumption
  <2>4. Exists(s.rfq) /\ ~rfq[s.rfq].private
    BY <2>1, <2>2 DEF Sendable, Exists, RFQAssumption
  <2> QED BY <1>1, <1>3, <2>1, <2>2, <2>3, <2>4 DEF TypeOK
<1> QED BY <1>2, <1>3

LEMMA ClaimEffect ==
  ASSUME TypeOK, NEW k \in Keys, NEW m \in Mailboxes, Claim(k, m)
  PROVE  /\ UNCHANGED <<rfq, mails, up>> /\ worker.pc = "ready" /\ attempt[k].to[m] = "pending"
         /\ worker' = [pc |-> "claimed", key |-> k, to |-> m, result |-> "unknown"]
         /\ attempt'[k].rfq = attempt[k].rfq /\ attempt'[k].text = attempt[k].text
         /\ attempt'[k].to = [attempt[k].to EXCEPT ![m] = "sending"]
         /\ attempt'[k].status = IF \E n \in Mailboxes : attempt[k].to[n] = "unknown"
                                 THEN "unknown" ELSE "sending"
         /\ \A j \in Keys : j # k => attempt'[j] = attempt[j]
<1>1. attempt' = [attempt EXCEPT ![k] = Claimed(@, m)] /\ attempt[k].to[m] = "pending"
      /\ UNCHANGED <<rfq, mails, up>> /\ worker.pc = "ready"
      /\ worker' = [pc |-> "claimed", key |-> k, to |-> m, result |-> "unknown"]
  BY DEF Claim
<1>2. attempt[k] \in Attempt /\ attempt'[k] = Claimed(attempt[k], m)
  BY <1>1 DEF TypeOK
<1>3. \A j \in Keys : j # k => attempt'[j] = attempt[j]
  BY <1>1 DEF TypeOK
<1> QED BY <1>1, <1>2, <1>3, ClaimedFields

LEMMA TransmitEffect ==
  ASSUME TypeOK, NEW taken \in BOOLEAN, Transmit(taken)
  PROVE  /\ UNCHANGED <<rfq, attempt, up>>
         /\ worker \in Work /\ worker.pc = "claimed"
         /\ worker' \in Work /\ worker'.pc = "done"
         /\ worker'.key = worker.key /\ worker'.to = worker.to
         /\ worker'.result \in SendResult(taken)
         /\ \A k \in Keys, m \in Mailboxes :
              mails'[k][m] = IF taken /\ k = worker.key /\ m = worker.to THEN mails[k][m] + 1
                             ELSE mails[k][m]
<1>1. UNCHANGED <<rfq, attempt, up>> /\ worker.pc = "claimed"
  BY DEF Transmit
<1>2. worker \in Work
  BY <1>1 DEF TypeOK, At
<1>3. PICK result \in SendResult(taken) : worker' = [worker EXCEPT !.pc = "done", !.result = result]
  BY DEF Transmit
<1>4. /\ worker' \in Work /\ worker'.pc = "done" /\ worker'.key = worker.key
      /\ worker'.to = worker.to /\ worker'.result \in SendResult(taken)
  BY <1>2, <1>3 DEF Work, SendResult, Outcomes
<1>5. \A k \in Keys, m \in Mailboxes :
        mails'[k][m] = IF taken /\ k = worker.key /\ m = worker.to THEN mails[k][m] + 1
                       ELSE mails[k][m]
  BY <1>2 DEF TypeOK, Transmit, Work
<1> QED BY <1>1, <1>2, <1>4, <1>5

LEMMA CompleteEffect ==
  ASSUME TypeOK, CompleteDelivery
  PROVE  /\ UNCHANGED <<rfq, mails, up>> /\ worker.pc = "done" /\ worker'.pc \in {"idle", "loop"}
         /\ worker \in Work
         /\ \/ UNCHANGED attempt
            \/ /\ attempt[worker.key].to[worker.to] = "sending"
               /\ attempt'[worker.key].rfq = attempt[worker.key].rfq
               /\ attempt'[worker.key].text = attempt[worker.key].text
               /\ attempt'[worker.key].to = [attempt[worker.key].to EXCEPT ![worker.to] = worker.result]
               /\ attempt'[worker.key].status =
                    Aggregate([attempt[worker.key].to EXCEPT ![worker.to] = worker.result])
               /\ \A j \in Keys : j # worker.key => attempt'[j] = attempt[j]
<1> DEFINE k == worker.key
           m == worker.to
<1>1. UNCHANGED <<rfq, mails, up>> /\ worker.pc = "done" /\ worker'.pc \in {"idle", "loop"}
  BY DEF CompleteDelivery, At
<1>2. worker \in Work
  BY <1>1 DEF TypeOK, At
<1>3. CASE ~(attempt[k].to[m] = "sending")
  BY <1>1, <1>2, <1>3 DEF CompleteDelivery
<1>4. CASE attempt[k].to[m] = "sending"
  <2>1. attempt' = [attempt EXCEPT ![k] = Completed(@, m, worker.result)]
    BY <1>4 DEF CompleteDelivery
  <2>2. attempt[k] \in Attempt /\ k \in Keys /\ m \in Mailboxes /\ worker.result \in Outcomes
    BY <1>2 DEF TypeOK, Work
  <2>3. attempt'[k] = Completed(attempt[k], m, worker.result)
    BY <2>1, <2>2 DEF TypeOK
  <2>4. \A j \in Keys : j # k => attempt'[j] = attempt[j]
    BY <2>1 DEF TypeOK
  <2>5. /\ attempt'[k].rfq = attempt[k].rfq /\ attempt'[k].text = attempt[k].text
        /\ attempt'[k].to = [attempt[k].to EXCEPT ![m] = worker.result]
        /\ attempt'[k].status = Aggregate([attempt[k].to EXCEPT ![m] = worker.result])
    BY <2>2, <2>3, CompletedFields
  <2> QED BY <1>1, <1>2, <1>4, <2>4, <2>5
<1> QED BY <1>3, <1>4

LEMMA RestartEffect ==
  ASSUME TypeOK, Restart
  PROVE  /\ UNCHANGED <<rfq, worker, mails>> /\ up = "down" /\ up' = "up"
         /\ \A k \in Keys :
              /\ attempt'[k].rfq = attempt[k].rfq /\ attempt'[k].text = attempt[k].text
              /\ \A m \in Mailboxes :
                   attempt'[k].to[m] = IF attempt[k].to[m] = "sending" THEN "unknown"
                                       ELSE attempt[k].to[m]
              /\ attempt'[k].to \in [Mailboxes -> Delivery]
              /\ attempt'[k].status = IF \E m \in Mailboxes : attempt'[k].to[m] = "unknown"
                                      THEN "unknown" ELSE attempt[k].status
<1>1. UNCHANGED <<rfq, worker, mails>> /\ up = "down" /\ up' = "up"
      /\ attempt' = [k \in Keys |-> Reconciled(attempt[k])]
  BY DEF Restart
<1>2. ASSUME NEW k \in Keys
      PROVE /\ attempt'[k].rfq = attempt[k].rfq /\ attempt'[k].text = attempt[k].text
            /\ \A m \in Mailboxes :
                 attempt'[k].to[m] = IF attempt[k].to[m] = "sending" THEN "unknown"
                                     ELSE attempt[k].to[m]
            /\ attempt'[k].to \in [Mailboxes -> Delivery]
            /\ attempt'[k].status = IF \E m \in Mailboxes : attempt'[k].to[m] = "unknown"
                                    THEN "unknown" ELSE attempt[k].status
  <2>1. attempt[k] \in Attempt /\ attempt'[k] = Reconciled(attempt[k])
    BY <1>1 DEF TypeOK
  <2>2. /\ attempt'[k].rfq = attempt[k].rfq /\ attempt'[k].text = attempt[k].text
        /\ attempt'[k].to = Interrupted(attempt[k].to)
        /\ attempt'[k].status = IF \E m \in Mailboxes : Interrupted(attempt[k].to)[m] = "unknown"
                                THEN "unknown" ELSE attempt[k].status
    BY <2>1, ReconciledFields
  <2>3. \A m \in Mailboxes :
          Interrupted(attempt[k].to)[m] = IF attempt[k].to[m] = "sending" THEN "unknown"
                                          ELSE attempt[k].to[m]
    BY DEF Interrupted
  <2>4. Interrupted(attempt[k].to) \in [Mailboxes -> Delivery]
    BY <2>1 DEF Interrupted, Attempt, Delivery, Outcomes
  <2> QED BY <2>2, <2>3, <2>4
<1> QED BY <1>1, <1>2

\* What anonymising does to an attempt of the request.
LEMMA WithdrawEffect ==
  ASSUME RFQAssumption, TypeOK, NEW r \in RFQs, AnonymizeRFQ(r), NEW k \in Keys
  PROVE  /\ attempt'[k].rfq = attempt[k].rfq
         /\ attempt[k].rfq # r => attempt'[k] = attempt[k]
         /\ attempt[k].rfq = r =>
              /\ attempt'[k].text = None
              /\ attempt'[k].to = Withdrawn(attempt[k].to)
              /\ attempt'[k].status = Aggregate(Withdrawn(attempt[k].to))
              /\ \A m \in Mailboxes :
                   /\ attempt[k].to[m] # "sending"
                   /\ attempt'[k].to[m] = IF attempt[k].to[m] = "pending" THEN "failed"
                                          ELSE attempt[k].to[m]
<1>1. attempt'[k] = IF attempt[k].rfq = r THEN AttemptScrubbed(attempt[k]) ELSE attempt[k]
  BY AnonymizeEffect
<1>2. CASE attempt[k].rfq # r
  BY <1>1, <1>2
<1>3. CASE attempt[k].rfq = r
  <2>1. attempt[k] \in Attempt /\ attempt'[k] = AttemptScrubbed(attempt[k])
    BY <1>1, <1>3 DEF TypeOK
  <2>2. /\ attempt'[k].rfq = attempt[k].rfq /\ attempt'[k].text = None
        /\ attempt'[k].to = Withdrawn(attempt[k].to)
        /\ attempt'[k].status = Aggregate(Withdrawn(attempt[k].to))
    BY <2>1, ScrubbedFields
  <2>3. \A m \in Mailboxes :
          Withdrawn(attempt[k].to)[m] = IF attempt[k].to[m] = "pending" THEN "failed"
                                        ELSE attempt[k].to[m]
    BY DEF Withdrawn
  <2>4. \A m \in Mailboxes : attempt[k].to[m] # "sending"
    BY <1>3 DEF AnonymizeRFQ, InFlight
  <2> QED BY <1>3, <2>2, <2>3, <2>4
<1> QED BY <1>2, <1>3

\* A request that exists stays, with its form and content; only AnonymizeRFQ
\* makes it private.
LEMMA RowStep ==
  ASSUME RFQAssumption, TypeOK, [Next]_vars, NEW q \in RFQs, Exists(q)
  PROVE  rfq'[q].rev > 0 /\ (rfq'[q].private = rfq[q].private \/ AnonymizeRFQ(q))
<1>1. CASE UNCHANGED rfq
  BY <1>1 DEF Exists
<1>2. ASSUME NEW p \in Posts, Submit(p)
      PROVE  rfq'[q].rev > 0 /\ rfq'[q].private = rfq[q].private
  <2>1. CASE Replayed(post[p].form)
    BY <1>2, <2>1 DEF Submit, Exists
  <2>2. CASE ~Replayed(post[p].form)
    BY <1>2, <2>2, SubmitEffect DEF Exists
  <2> QED BY <2>1, <2>2
<1>3. ASSUME NEW r \in RFQs, ReviseOnly(r)
      PROVE  rfq'[q].rev > 0 /\ rfq'[q].private = rfq[q].private
  BY <1>3, ReviseEffect
<1>4. ASSUME NEW r \in RFQs, AnonymizeRFQ(r)
      PROVE  rfq'[q].rev > 0 /\ (r # q => rfq'[q].private = rfq[q].private)
  <2>1. \A s \in RFQs : ((rfq'[s].rev > 0) <=> Exists(s)) /\ (s # r => rfq'[s] = rfq[s])
    <3> USE <1>4, AnonymizeEffect
    <3>1. \A s \in RFQs : (rfq'[s].rev > 0) <=> Exists(s)
      OBVIOUS
    <3>2. \A s \in RFQs : s # r => rfq'[s] = rfq[s]
      OBVIOUS
    <3> QED BY <3>1, <3>2
  <2> QED BY <2>1
<1>5. CASE Visitor
  BY <1>1, <1>2, <1>5 DEF Visitor, Refuse, Ask
<1>6. CASE Staff
  BY <1>1, <1>3, <1>4, <1>6 DEF Staff, ReviseOnly, UpdateRFQRecipientSettings
<1>7. CASE Server \/ Worker
  BY <1>1, <1>7 DEF Server, CreateDelivery, WakeWorker, Worker, TakeWake, Loop, NothingToClaim,
                    Return, CompleteDelivery, Claim, Transmit
<1>8. CASE WorkerFails \/ Process \/ UNCHANGED vars
  BY <1>1, <1>8 DEF WorkerFails, ClaimFails, CompletionFails, Process, BeginDrain, Stop, Crash,
                    Gone, Restart, vars
<1> QED BY <1>5, <1>6, <1>7, <1>8 DEF Next

LEMMA AttemptStep ==
  ASSUME RFQAssumption, TypeOK, AttemptInv, [Next]_vars PROVE AttemptInv'
<1>1. ASSUME NEW k \in Keys, attempt'[k].rfq = attempt[k].rfq,
             \A m \in Mailboxes : attempt[k].to[m] = "none" => attempt'[k].to[m] = "none"
      PROVE  /\ attempt'[k].rfq # None => rfq'[attempt'[k].rfq].rev > 0
             /\ attempt'[k].rfq = None => \A m \in Mailboxes : attempt'[k].to[m] = "none"
  <2>1. CASE attempt[k].rfq # None
    <3>1. attempt[k].rfq \in RFQs /\ Exists(attempt[k].rfq)
      BY <2>1 DEF TypeOK, Attempt, AttemptInv, Attempted
    <3> QED BY <1>1, <2>1, <3>1, RowStep
  <2>2. CASE attempt[k].rfq = None
    BY <1>1, <2>2 DEF AttemptInv, Attempted
  <2> QED BY <2>1, <2>2
<1>2. ASSUME \A k \in Keys : /\ attempt'[k].rfq = attempt[k].rfq
                             /\ \A m \in Mailboxes : attempt[k].to[m] = "none" => attempt'[k].to[m] = "none"
      PROVE AttemptInv'
  BY <1>1, <1>2 DEF AttemptInv, Attempted, Exists
<1>3. CASE UNCHANGED attempt
  BY <1>2, <1>3
<1>4. ASSUME NEW r \in RFQs, AnonymizeRFQ(r) PROVE AttemptInv'
  <2>1. ASSUME NEW k \in Keys
        PROVE /\ attempt'[k].rfq = attempt[k].rfq
              /\ \A m \in Mailboxes : attempt[k].to[m] = "none" => attempt'[k].to[m] = "none"
    BY <1>4, WithdrawEffect
  <2> QED BY <1>2, <2>1
<1>5. ASSUME NEW s \in Send, CreateDelivery(s) PROVE AttemptInv'
  <2>1. CASE UNCHANGED attempt
    BY <1>3, <2>1
  <2>2. CASE ~UNCHANGED attempt
    <3>1. /\ UNCHANGED rfq
          /\ s.key \in Keys /\ s.rfq # None /\ Exists(s.rfq)
          /\ attempt'[s.key] = NewAttempt(s)
          /\ \A k \in Keys : k # s.key => attempt'[k] = attempt[k]
      BY <1>5, <2>2, CreateEffect
    <3>2. attempt'[s.key].rfq = s.rfq
      BY <3>1, NewAttemptFields
    <3> QED BY <3>1, <3>2 DEF AttemptInv, Attempted, Exists
  <2> QED BY <2>1, <2>2
<1>6. ASSUME NEW k \in Keys, NEW m \in Mailboxes, Claim(k, m) PROVE AttemptInv'
  <2>1. /\ attempt'[k].rfq = attempt[k].rfq /\ attempt[k].to[m] = "pending"
        /\ attempt'[k].to = [attempt[k].to EXCEPT ![m] = "sending"]
        /\ \A j \in Keys : j # k => attempt'[j] = attempt[j]
    BY <1>6, ClaimEffect
  <2>2. attempt[k].to \in [Mailboxes -> Delivery]
    BY DEF TypeOK, Attempt
  <2>3. \A n \in Mailboxes : attempt[k].to[n] = "none" => attempt'[k].to[n] = "none"
    BY <2>1, <2>2
  <2> QED BY <1>2, <2>1, <2>3
<1>7. CASE CompleteDelivery
  <2>1. CASE UNCHANGED attempt
    BY <1>3, <2>1
  <2>2. CASE ~UNCHANGED attempt
    <3> DEFINE k == worker.key
               m == worker.to
    <3>1. /\ attempt'[k].rfq = attempt[k].rfq /\ attempt[k].to[m] = "sending"
          /\ attempt'[k].to = [attempt[k].to EXCEPT ![m] = worker.result]
          /\ \A j \in Keys : j # k => attempt'[j] = attempt[j]
          /\ worker \in Work
      BY <1>7, <2>2, CompleteEffect
    <3>2. attempt[k].to \in [Mailboxes -> Delivery]
      BY <3>1 DEF TypeOK, Attempt, Work
    <3>3. \A n \in Mailboxes : attempt[k].to[n] = "none" => attempt'[k].to[n] = "none"
      BY <3>1, <3>2
    <3> QED BY <1>2, <3>1, <3>3
  <2> QED BY <2>1, <2>2
<1>8. CASE Restart
  <2>1. ASSUME NEW k \in Keys
        PROVE /\ attempt'[k].rfq = attempt[k].rfq
              /\ \A m \in Mailboxes : attempt[k].to[m] = "none" => attempt'[k].to[m] = "none"
    BY <1>8, RestartEffect
  <2> QED BY <1>2, <2>1
<1>9. ASSUME NEW taken \in BOOLEAN, Transmit(taken) PROVE AttemptInv'
  BY <1>3, <1>9 DEF Transmit
<1> QED BY <1>3, <1>4, <1>5, <1>6, <1>7, <1>8, <1>9, Touch

\* A dead process has an idle worker.
LEMMA IdleStep ==
  ASSUME RFQAssumption, TypeOK, WorkInv, [Next]_vars PROVE up' = "down" => worker'.pc = "idle"
<1>1. CASE UNCHANGED <<up, worker>> \/ up' \in {"up", "draining"}
  BY <1>1 DEF WorkInv
<1>2. CASE Visitor \/ Staff \/ Server \/ UNCHANGED vars
  BY <1>1, <1>2 DEF Visitor, Refuse, Ask, Submit, Staff, UpdateRFQRecipientSettings,
                    UpdateRFQStatus, ReplaceRFQRecipients, AnonymizeRFQ, Server, CreateDelivery,
                    WakeWorker, vars, mailer
<1>3. CASE Worker \/ WorkerFails
  <2>1. UNCHANGED up /\ (worker.pc = "idle" => Running)
    BY <1>3 DEF Worker, TakeWake, Loop, NothingToClaim, Return, CompleteDelivery, Claim, Transmit,
                WorkerFails, ClaimFails, CompletionFails
  <2> QED BY <2>1 DEF WorkInv, Running
<1>4. CASE Process
  BY <1>4 DEF Process, BeginDrain, Stop, Crash, Gone, Restart, At
<1> QED BY <1>2, <1>3, <1>4 DEF Next

LEMMA WorkStep ==
  ASSUME RFQAssumption, TypeOK, AttemptInv, WorkInv, [Next]_vars PROVE WorkInv'
<1> DEFINE Kept == \A k \in Keys, m \in Mailboxes :
             worker'.pc \in {"claimed", "done"} /\ worker'.key = k /\ worker'.to = m =>
               attempt'[k].to[m] = "sending"
<1>1. ASSUME UNCHANGED <<attempt, worker, mails>> PROVE Kept
  BY <1>1 DEF WorkInv, Serving
<1>2. ASSUME NEW r \in RFQs, AnonymizeRFQ(r) PROVE Kept
  <2>1. UNCHANGED worker
    BY <1>2, AnonymizeEffect
  <2>2. \A k \in Keys, m \in Mailboxes : attempt[k].to[m] = "sending" => attempt'[k].to[m] = "sending"
    BY <1>2, WithdrawEffect
  <2> QED BY <2>1, <2>2 DEF WorkInv, Serving
<1>3. ASSUME NEW s \in Send, CreateDelivery(s) PROVE Kept
  <2>1. /\ UNCHANGED worker
        /\ \A k \in Keys : attempt'[k] = attempt[k] \/ ~Attempted(k)
    BY <1>3, CreateEffect
  <2>2. \A k \in Keys, m \in Mailboxes : attempt[k].to[m] = "sending" => Attempted(k)
    BY DEF AttemptInv
  <2> QED BY <2>1, <2>2 DEF WorkInv, Serving
<1>4. ASSUME worker'.pc \in {"idle", "loop", "ready", "return"} PROVE Kept
  BY <1>4
<1>5. ASSUME NEW k \in Keys, NEW m \in Mailboxes, Claim(k, m) PROVE Kept
  <2>1. attempt[k].to \in [Mailboxes -> Delivery]
    BY DEF TypeOK, Attempt
  <2>2. worker'.key = k /\ worker'.to = m /\ attempt'[k].to = [attempt[k].to EXCEPT ![m] = "sending"]
    BY <1>5, ClaimEffect
  <2> QED BY <2>1, <2>2
<1>6. ASSUME NEW taken \in BOOLEAN, Transmit(taken) PROVE Kept
  <2>1. UNCHANGED attempt /\ worker.pc = "claimed" /\ worker'.key = worker.key /\ worker'.to = worker.to
    BY <1>6, TransmitEffect
  <2> QED BY <2>1 DEF WorkInv, Serving
<1>7. ASSUME CompleteDelivery PROVE Kept
  <2>1. worker'.pc \in {"idle", "loop"}
    BY <1>7, CompleteEffect
  <2> QED BY <2>1
<1>8. ASSUME Restart PROVE Kept
  <2>1. UNCHANGED worker /\ up = "down"
    BY <1>8, RestartEffect
  <2> QED BY <2>1 DEF WorkInv
<1>9. Kept
  <2> HIDE DEF Kept
  <2> QED BY <1>1, <1>2, <1>3, <1>4, <1>5, <1>6, <1>7, <1>8, Touch
<1>10. up' = "down" => worker'.pc = "idle"
  BY IdleStep
<1> QED BY <1>9, <1>10 DEF WorkInv, Serving

LEMMA MailStep ==
  ASSUME RFQAssumption, TypeOK, AttemptInv, WorkInv, MailInv, [Next]_vars PROVE MailInv'
<1> DEFINE Busy(k, m, pc) == worker'.pc = pc /\ worker'.key = k /\ worker'.to = m
           Right(k, m) ==
             /\ mails'[k][m] <= 1
             /\ attempt'[k].to[m] \in {"none", "pending", "failed"} => mails'[k][m] = 0
             /\ attempt'[k].to[m] = "accepted" => mails'[k][m] = 1
             /\ Busy(k, m, "claimed") => mails'[k][m] = 0
             /\ Busy(k, m, "done") /\ worker'.result = "failed" => mails'[k][m] = 0
             /\ Busy(k, m, "done") /\ worker'.result = "accepted" => mails'[k][m] = 1
<1>0. ASSUME \A k \in Keys, m \in Mailboxes : Right(k, m) PROVE MailInv'
  BY <1>0 DEF MailInv, Serving
<1>1. CASE UNCHANGED <<attempt, worker, mails>>
  BY <1>1 DEF MailInv, Serving
<1>2. ASSUME NEW r \in RFQs, AnonymizeRFQ(r), NEW k \in Keys, NEW m \in Mailboxes
      PROVE  Right(k, m)
  <2>1. UNCHANGED <<worker, mails>>
    BY <1>2, AnonymizeEffect
  <2>2. \/ attempt'[k].to[m] = attempt[k].to[m]
        \/ attempt[k].to[m] = "pending" /\ attempt'[k].to[m] = "failed"
    BY <1>2, WithdrawEffect
  <2>3. /\ mails[k][m] <= 1
        /\ attempt[k].to[m] \in {"none", "pending", "failed"} => mails[k][m] = 0
        /\ attempt[k].to[m] = "accepted" => mails[k][m] = 1
    BY DEF MailInv
  <2>4. /\ Busy(k, m, "claimed") => mails[k][m] = 0
        /\ Busy(k, m, "done") /\ worker.result = "failed" => mails[k][m] = 0
        /\ Busy(k, m, "done") /\ worker.result = "accepted" => mails[k][m] = 1
    BY <2>1 DEF MailInv, Serving
  <2> QED BY <2>1, <2>2, <2>3, <2>4
<1>3. ASSUME NEW s \in Send, CreateDelivery(s), NEW k \in Keys, NEW m \in Mailboxes
      PROVE  Right(k, m)
  <2>1. UNCHANGED <<worker, mails>>
    BY <1>3, CreateEffect
  <2>2. \/ attempt'[k].to[m] = attempt[k].to[m]
        \/ attempt[k].to[m] = "none" /\ attempt'[k].to[m] \in {"none", "pending"}
    <3>1. attempt'[k] = attempt[k] \/ (~Attempted(k) /\ attempt'[k] = NewAttempt(s))
      <4>1. CASE UNCHANGED attempt
        BY <4>1
      <4>2. CASE ~UNCHANGED attempt
        BY <1>3, <4>2, CreateEffect
      <4> QED BY <4>1, <4>2
    <3>2. NewAttempt(s).to[m] \in {"none", "pending"}
      <4>1. NewAttempt(s).to = [n \in Mailboxes |-> IF n \in rfq[s.rfq].to THEN "pending" ELSE "none"]
        BY NewAttemptFields
      <4> QED BY <4>1
    <3>3. ~Attempted(k) => attempt[k].to[m] = "none"
      BY DEF AttemptInv
    <3> QED BY <3>1, <3>2, <3>3
  <2> QED BY <2>1, <2>2 DEF MailInv, Serving
<1>4. ASSUME UNCHANGED <<attempt, mails>>, worker'.pc \in {"idle", "loop", "ready", "return"},
             NEW k \in Keys, NEW m \in Mailboxes
      PROVE  Right(k, m)
  BY <1>4 DEF MailInv
<1>5. ASSUME NEW j \in Keys, NEW n \in Mailboxes, Claim(j, n), NEW k \in Keys, NEW m \in Mailboxes
      PROVE  Right(k, m)
  <2>1. attempt[k].to \in [Mailboxes -> Delivery]
    BY DEF TypeOK, Attempt
  <2>2. /\ UNCHANGED mails /\ attempt[j].to[n] = "pending"
        /\ attempt'[j].to = [attempt[j].to EXCEPT ![n] = "sending"]
        /\ \A i \in Keys : i # j => attempt'[i] = attempt[i]
    BY <1>5, ClaimEffect
  <2>3. worker' = [pc |-> "claimed", key |-> j, to |-> n, result |-> "unknown"]
    BY <1>5, ClaimEffect
  <2>4. CASE k = j /\ m = n
    <3>1. attempt'[k].to[m] = "sending" /\ mails'[k][m] = 0
      BY <2>1, <2>2, <2>4 DEF MailInv
    <3> QED BY <2>3, <3>1
  <2>5. CASE ~(k = j /\ m = n)
    <3>1. attempt'[k].to[m] = attempt[k].to[m]
      BY <2>1, <2>2, <2>5
    <3> QED BY <2>2, <2>3, <2>5, <3>1 DEF MailInv
  <2> QED BY <2>4, <2>5
<1>6. ASSUME NEW taken \in BOOLEAN, Transmit(taken), NEW k \in Keys, NEW m \in Mailboxes
      PROVE  Right(k, m)
  <2>1. /\ UNCHANGED attempt
        /\ worker.pc = "claimed" /\ worker'.pc = "done"
        /\ worker'.key = worker.key /\ worker'.to = worker.to
        /\ worker'.result \in SendResult(taken)
        /\ mails'[k][m] = IF taken /\ k = worker.key /\ m = worker.to THEN mails[k][m] + 1
                          ELSE mails[k][m]
    BY <1>6, TransmitEffect
  <2>2. CASE k = worker.key /\ m = worker.to
    <3>1. attempt'[k].to[m] = "sending" /\ mails[k][m] = 0
      BY <2>1, <2>2 DEF WorkInv, MailInv, Serving
    <3>2. mails'[k][m] = IF taken THEN 1 ELSE 0
      BY <2>1, <2>2, <3>1
    <3>3. (worker'.result = "failed" => ~taken) /\ (worker'.result = "accepted" => taken)
      BY <2>1 DEF SendResult
    <3> QED BY <2>1, <3>1, <3>2, <3>3
  <2>3. CASE ~(k = worker.key /\ m = worker.to)
    BY <2>1, <2>3 DEF MailInv
  <2> QED BY <2>2, <2>3
<1>7. ASSUME CompleteDelivery, NEW k \in Keys, NEW m \in Mailboxes PROVE Right(k, m)
  <2>1. UNCHANGED mails /\ worker.pc = "done" /\ worker'.pc \in {"idle", "loop"} /\ worker \in Work
    BY <1>7, CompleteEffect
  <2>2. CASE UNCHANGED attempt
    BY <2>1, <2>2 DEF MailInv
  <2>3. CASE ~UNCHANGED attempt
    <3>1. /\ attempt'[worker.key].to = [attempt[worker.key].to EXCEPT ![worker.to] = worker.result]
          /\ \A j \in Keys : j # worker.key => attempt'[j] = attempt[j]
      BY <1>7, <2>3, CompleteEffect
    <3>2. attempt[k].to \in [Mailboxes -> Delivery]
      BY DEF TypeOK, Attempt
    <3>3. CASE k = worker.key /\ m = worker.to
      <4>1. attempt'[k].to[m] = worker.result /\ worker.result \in Outcomes
        BY <2>1, <3>1, <3>2, <3>3 DEF Work
      <4>2. /\ worker.result = "failed" => mails[k][m] = 0
            /\ worker.result = "accepted" => mails[k][m] = 1
            /\ mails[k][m] <= 1
        BY <2>1, <3>3 DEF MailInv, Serving
      <4> QED BY <2>1, <4>1, <4>2 DEF Outcomes
    <3>4. CASE ~(k = worker.key /\ m = worker.to)
      <4>1. attempt'[k].to[m] = attempt[k].to[m]
        BY <3>1, <3>2, <3>4
      <4> QED BY <2>1, <4>1 DEF MailInv
    <3> QED BY <3>3, <3>4
  <2> QED BY <2>2, <2>3
<1>8. ASSUME Restart, NEW k \in Keys, NEW m \in Mailboxes PROVE Right(k, m)
  <2>1. UNCHANGED <<worker, mails>>
    BY <1>8, RestartEffect
  <2>2. attempt'[k].to[m] = IF attempt[k].to[m] = "sending" THEN "unknown" ELSE attempt[k].to[m]
    BY <1>8, RestartEffect
  <2> QED BY <2>1, <2>2 DEF MailInv, Serving
<1> HIDE DEF Right
<1> QED BY <1>0, <1>1, <1>2, <1>3, <1>4, <1>5, <1>6, <1>7, <1>8, Touch

LEMMA StatusStep ==
  ASSUME RFQAssumption, TypeOK, AttemptInv, StatusInv, [Next]_vars PROVE StatusInv'
<1> DEFINE Sums(k) == attempt'[k].rfq # None /\ attempt'[k].status # "pending" =>
                        attempt'[k].status = Aggregate(attempt'[k].to)
<1>0. ASSUME \A k \in Keys : Sums(k) PROVE StatusInv'
  BY <1>0 DEF StatusInv, Attempted
<1>1. ASSUME NEW k \in Keys, attempt'[k] = attempt[k] PROVE Sums(k)
  BY <1>1 DEF StatusInv, Attempted
<1>2. ASSUME NEW r \in RFQs, AnonymizeRFQ(r), NEW k \in Keys PROVE Sums(k)
  BY <1>1, <1>2, WithdrawEffect
<1>3. ASSUME NEW s \in Send, CreateDelivery(s), NEW k \in Keys PROVE Sums(k)
  <2>1. attempt'[k] = attempt[k] \/ attempt'[k] = NewAttempt(s)
    BY <1>3, CreateEffect
  <2> QED BY <1>1, <2>1, NewAttemptFields, ZenonT(60)
<1>4. ASSUME NEW j \in Keys, NEW n \in Mailboxes, Claim(j, n), NEW k \in Keys PROVE Sums(k)
  <2>1. CASE k # j
    <3>1. \A i \in Keys : i # j => attempt'[i] = attempt[i]
      BY <1>4, ClaimEffect
    <3> QED BY <1>1, <2>1, <3>1
  <2>2. CASE k = j
    <3>1. attempt[k].to \in [Mailboxes -> Delivery]
      BY DEF TypeOK, Attempt
    <3>2. /\ attempt[k].to[n] = "pending"
          /\ attempt'[k].to = [attempt[k].to EXCEPT ![n] = "sending"]
          /\ attempt'[k].status = IF \E m \in Mailboxes : attempt[k].to[m] = "unknown"
                                  THEN "unknown" ELSE "sending"
      BY <1>4, <2>2, ClaimEffect
    <3>3. /\ attempt'[k].to[n] = "sending"
          /\ \A m \in Mailboxes : m # n => attempt'[k].to[m] = attempt[k].to[m]
      BY <3>1, <3>2
    <3>4. (\E m \in Mailboxes : attempt'[k].to[m] = "unknown") <=>
            \E m \in Mailboxes : attempt[k].to[m] = "unknown"
      BY <3>2, <3>3
    <3> QED BY <3>2, <3>3, <3>4 DEF Aggregate
  <2> QED BY <2>1, <2>2
<1>5. ASSUME CompleteDelivery, NEW k \in Keys PROVE Sums(k)
  BY <1>1, <1>5, CompleteEffect
<1>6. ASSUME Restart, NEW k \in Keys PROVE Sums(k)
  <2>1. /\ attempt'[k].rfq = attempt[k].rfq
        /\ \A m \in Mailboxes :
             attempt'[k].to[m] = IF attempt[k].to[m] = "sending" THEN "unknown"
                                 ELSE attempt[k].to[m]
        /\ attempt'[k].to \in [Mailboxes -> Delivery]
        /\ attempt'[k].status = IF \E m \in Mailboxes : attempt'[k].to[m] = "unknown"
                                THEN "unknown" ELSE attempt[k].status
    BY <1>6, RestartEffect
  <2>2. CASE \E m \in Mailboxes : attempt'[k].to[m] = "unknown"
    BY <2>1, <2>2 DEF Aggregate
  <2>3. CASE ~\E m \in Mailboxes : attempt'[k].to[m] = "unknown"
    <3>1. attempt[k].to \in [Mailboxes -> Delivery]
      BY DEF TypeOK, Attempt
    <3>2. \A m \in Mailboxes : attempt'[k].to[m] = attempt[k].to[m]
      BY <2>1, <2>3
    <3>3. attempt'[k].to = attempt[k].to
      BY <2>1, <3>1, <3>2
    <3> QED BY <2>1, <2>3, <3>3 DEF StatusInv, Attempted
  <2> QED BY <2>2, <2>3
<1>7. ASSUME NEW k \in Keys PROVE Sums(k)
  <2>1. CASE UNCHANGED attempt
    BY <1>1, <2>1
  <2>2. ASSUME NEW taken \in BOOLEAN, Transmit(taken) PROVE UNCHANGED attempt
    BY <2>2, TransmitEffect
  <2> HIDE DEF Sums
  <2> QED BY <1>2, <1>3, <1>4, <1>5, <1>6, <2>1, <2>2, Touch
<1> QED BY <1>0, <1>7

LEMMA PrivateStep ==
  ASSUME RFQAssumption, TypeOK, AttemptInv, PrivateInv, [Next]_vars PROVE PrivateInv'
<1> DEFINE Quiet(k) == attempt'[k].text = None
                       /\ \A m \in Mailboxes : attempt'[k].to[m] \notin {"pending", "sending"}
           Rest(k) == attempt[k].text = None
                      /\ \A m \in Mailboxes : attempt[k].to[m] \notin {"pending", "sending"}
           Safe(k) == attempt'[k].rfq # None /\ rfq'[attempt'[k].rfq].private => Quiet(k)
<1>0. ASSUME \A k \in Keys : Safe(k) PROVE PrivateInv'
  BY <1>0 DEF PrivateInv, Attempted
<1>1. ASSUME NEW k \in Keys, attempt'[k].rfq = attempt[k].rfq, Rest(k) => Quiet(k),
             \A r \in RFQs : ~AnonymizeRFQ(r)
      PROVE  Safe(k)
  <2>1. SUFFICES ASSUME attempt'[k].rfq # None, rfq'[attempt'[k].rfq].private PROVE Quiet(k)
    OBVIOUS
  <2>2. attempt[k].rfq \in RFQs /\ Exists(attempt[k].rfq)
    BY <1>1, <2>1 DEF TypeOK, Attempt, AttemptInv, Attempted
  <2>3. rfq[attempt[k].rfq].private
    BY <1>1, <2>1, <2>2, RowStep
  <2>4. Rest(k)
    BY <1>1, <2>1, <2>3 DEF PrivateInv, Attempted
  <2> QED BY <1>1, <2>4
<1>2. ASSUME NEW r \in RFQs, AnonymizeRFQ(r), NEW k \in Keys PROVE Safe(k)
  <2>1. CASE attempt[k].rfq = r
    BY <1>2, <2>1, WithdrawEffect
  <2>2. CASE attempt[k].rfq # r
    <3>1. attempt'[k] = attempt[k]
      BY <1>2, <2>2, WithdrawEffect
    <3>2. attempt[k].rfq # None => attempt[k].rfq \in RFQs
      BY DEF TypeOK, Attempt
    <3>3. attempt[k].rfq # None => rfq'[attempt[k].rfq] = rfq[attempt[k].rfq]
      BY <1>2, <2>2, <3>2, AnonymizeEffect
    <3> QED BY <3>1, <3>3 DEF PrivateInv, Attempted
  <2> QED BY <2>1, <2>2
<1>3. ASSUME NEW s \in Send, CreateDelivery(s), NEW k \in Keys PROVE Safe(k)
  <2>1. UNCHANGED rfq
    BY <1>3, CreateEffect
  <2>2. \/ attempt'[k] = attempt[k]
        \/ attempt'[k].rfq = s.rfq /\ ~rfq[s.rfq].private
    <3>1. CASE UNCHANGED attempt
      BY <3>1
    <3>2. CASE ~UNCHANGED attempt
      <4>1. /\ ~rfq[s.rfq].private /\ attempt'[s.key] = NewAttempt(s)
            /\ \A i \in Keys : i # s.key => attempt'[i] = attempt[i]
        BY <1>3, <3>2, CreateEffect
      <4>2. attempt'[s.key].rfq = s.rfq
        BY <4>1, NewAttemptFields
      <4> QED BY <4>1, <4>2
    <3> QED BY <3>1, <3>2
  <2>3. CASE attempt'[k] = attempt[k]
    BY <2>1, <2>3 DEF PrivateInv, Attempted
  <2>4. CASE attempt'[k].rfq = s.rfq /\ ~rfq[s.rfq].private
    BY <2>1, <2>4
  <2> QED BY <2>2, <2>3, <2>4
<1>4. ASSUME NEW j \in Keys, NEW n \in Mailboxes, Claim(j, n), NEW k \in Keys PROVE Safe(k)
  <2>1. UNCHANGED rfq /\ attempt[j].to[n] = "pending" /\ attempt'[j].rfq = attempt[j].rfq
    <3> HIDE DEF Quiet, Rest, Safe
    <3>1. UNCHANGED <<rfq, mails, up>>
      BY <1>4, ClaimEffect
    <3>2. attempt[j].to[n] = "pending"
      BY <1>4, ClaimEffect, ZenonT(60)
    <3>3. attempt'[j].rfq = attempt[j].rfq
      BY <1>4, ClaimEffect
    <3> QED BY <3>1, <3>2, <3>3
  <2>4. \A i \in Keys : i # j => attempt'[i] = attempt[i]
    BY <1>4, ClaimEffect
  <2>2. CASE k # j
    BY <2>1, <2>2, <2>4 DEF PrivateInv, Attempted
  <2>3. CASE k = j
    <3>1. attempt[k].rfq # None => ~rfq[attempt[k].rfq].private
      BY <2>1, <2>3 DEF PrivateInv, Attempted
    <3> QED BY <2>1, <2>3, <3>1
  <2> QED BY <2>2, <2>3
<1>5. ASSUME CompleteDelivery, NEW k \in Keys PROVE Safe(k)
  <2>1. /\ UNCHANGED rfq /\ worker \in Work
    BY <1>5, CompleteEffect
  <2>2. CASE attempt'[k] = attempt[k]
    BY <2>1, <2>2 DEF PrivateInv, Attempted
  <2>3. CASE attempt'[k] # attempt[k]
    <3>1. /\ k = worker.key /\ attempt[k].to[worker.to] = "sending"
          /\ attempt'[k].rfq = attempt[k].rfq
      BY <1>5, <2>3, CompleteEffect
    <3>2. worker.to \in Mailboxes
      BY <2>1 DEF Work
    <3> QED BY <2>1, <3>1, <3>2 DEF PrivateInv, Attempted
  <2> QED BY <2>2, <2>3
<1>6. ASSUME Restart, NEW k \in Keys PROVE Safe(k)
  <2>1. /\ UNCHANGED rfq /\ attempt'[k].rfq = attempt[k].rfq /\ attempt'[k].text = attempt[k].text
        /\ \A m \in Mailboxes : attempt'[k].to[m] = IF attempt[k].to[m] = "sending" THEN "unknown"
                                                    ELSE attempt[k].to[m]
    BY <1>6, RestartEffect
  <2> QED BY <2>1 DEF PrivateInv, Attempted
<1>7. ASSUME NEW k \in Keys, \A r \in RFQs : ~AnonymizeRFQ(r) PROVE Safe(k)
  <2>1. CASE UNCHANGED attempt
    <3>1. attempt'[k].rfq = attempt[k].rfq /\ (Rest(k) => Quiet(k))
      BY <2>1
    <3> HIDE DEF Rest, Quiet, Safe
    <3> QED BY <1>1, <1>7, <3>1
  <2>2. ASSUME NEW taken \in BOOLEAN, Transmit(taken) PROVE UNCHANGED attempt
    BY <2>2, TransmitEffect
  <2> HIDE DEF Safe
  <2> QED BY <1>3, <1>4, <1>5, <1>6, <1>7, <2>1, <2>2, Touch
<1> HIDE DEF Safe
<1> QED BY <1>0, <1>2, <1>7

LEMMA InitInv == ASSUME RFQAssumption, Init PROVE RFQInv
<1>1. TypeOK
  BY InitType
<1>2. /\ \A r \in RFQs : ~Exists(r) /\ ~rfq[r].private
      /\ \A f \in Forms : receipt[f].rfq = None
      /\ told = {}
  BY DEF Init, NoRFQ, Exists
<1>3. ReceiptInv
  BY <1>2 DEF ReceiptInv
<1>4. \A k \in Keys : attempt[k].rfq = None /\ \A m \in Mailboxes : attempt[k].to[m] = "none"
  BY DEF Init, NoAttempt
<1>5. AttemptInv /\ StatusInv /\ PrivateInv
  BY <1>4 DEF AttemptInv, StatusInv, PrivateInv, Attempted
<1>6. WorkInv /\ MailInv
  BY <1>4 DEF Init, At, WorkInv, MailInv, Serving
<1> QED BY <1>1, <1>3, <1>5, <1>6 DEF RFQInv

LEMMA StepInv == ASSUME RFQAssumption, RFQInv, [Next]_vars PROVE RFQInv'
<1>1. TypeOK /\ ReceiptInv /\ AttemptInv /\ WorkInv /\ MailInv /\ StatusInv /\ PrivateInv
  BY DEF RFQInv
<1>2. TypeOK' /\ ReceiptInv' /\ AttemptInv' /\ WorkInv'
  BY <1>1, TypeStep, ReceiptStep, AttemptStep, WorkStep
<1>3. MailInv' /\ StatusInv' /\ PrivateInv'
  BY <1>1, MailStep, StatusStep, PrivateStep
<1> QED BY <1>2, <1>3 DEF RFQInv

-----------------------------------------------------------------------------
(* Theorems *)

\* The inductive invariant: requests and receipts correspond, the worker serves
\* what is marked as being sent, the mails are those the records allow, and an
\* anonymised request has nothing left to send.
THEOREM RFQInvariant == Spec => []RFQInv
<1>1. Init => RFQInv
  BY InitInv, RFQAssumption
<1>2. RFQInv /\ [Next]_vars => RFQInv'
  BY StepInv, RFQAssumption
<1> QED BY <1>1, <1>2, PTL DEF Spec

\* A form gives one request, whatever is repeated or lost.
THEOREM OneRequestPerForm == Spec => []OneRFQPerForm
<1>1. RFQInv => OneRFQPerForm
  BY DEF RFQInv, ReceiptInv, OneRFQPerForm
<1> QED BY <1>1, RFQInvariant, PTL

\* A receipt shown to a visitor is the receipt of what he sent.
THEOREM ReceiptsAreTruthful == Spec => []ReceiptsTruthful
<1>1. RFQInv => ReceiptsTruthful
  BY DEF RFQInv, ReceiptInv, ReceiptsTruthful
<1> QED BY <1>1, RFQInvariant, PTL

\* No crash, failed statement or repeated call makes a second mail of a decision.
THEOREM MailedAtMostOnce == Spec => []AtMostOnce
<1>1. RFQInv => AtMostOnce
  BY DEF RFQInv, MailInv, AtMostOnce
<1> QED BY <1>1, RFQInvariant, PTL

\* What the delivery records say of the mails is true.
THEOREM RecordIsTruthful == Spec => []RecordTruthful
<1>1. RFQInv => RecordTruthful
  BY DEF RFQInv, MailInv, StatusInv, RecordTruthful
<1> QED BY <1>1, RFQInvariant, PTL

\* Anonymising leaves no text of the request behind and nothing to send.
THEOREM NothingIsRetained == Spec => []NothingRetained
<1>1. ASSUME RFQInv, NEW r \in RFQs, rfq[r].private
      PROVE  /\ rfq[r].text = None
             /\ \A k \in Keys : attempt[k].rfq = r =>
                  attempt[k].text = None /\ \A m \in Mailboxes : attempt[k].to[m] \notin {"pending", "sending"}
             /\ \A f \in Forms : receipt[f].rfq = r => receipt[f].text = None
  <2>1. r # None
    BY RFQAssumption DEF RFQAssumption
  <2>2. rfq[r].text = None /\ \A f \in Forms : receipt[f].rfq = r => receipt[f].text = None
    BY <1>1, <2>1 DEF RFQInv, ReceiptInv
  <2>3. \A k \in Keys : attempt[k].rfq = r =>
          attempt[k].text = None /\ \A m \in Mailboxes : attempt[k].to[m] \notin {"pending", "sending"}
    BY <1>1, <2>1 DEF RFQInv, PrivateInv, Attempted
  <2> QED BY <2>2, <2>3
<1>2. RFQInv => NothingRetained
  BY <1>1 DEF NothingRetained
<1> QED BY <1>2, RFQInvariant, PTL

\* No mail about an anonymised request leaves the process.
THEOREM NoMailAboutThePrivate == Spec => NoMailOncePrivate
<1>1. ASSUME RFQInv, [Next]_vars, NEW k \in Keys, mails'[k] # mails[k]
      PROVE  ~rfq[attempt[k].rfq].private
  <2>1. \E taken \in BOOLEAN : Transmit(taken)
    <3>1. RFQAssumption /\ TypeOK
      BY <1>1, RFQAssumption DEF RFQInv
    <3>2. ASSUME NEW r \in RFQs, AnonymizeRFQ(r) PROVE UNCHANGED mails
      BY <3>1, <3>2, AnonymizeEffect
    <3>3. ASSUME NEW s \in Send, CreateDelivery(s) PROVE UNCHANGED mails
      BY <3>1, <3>3, CreateEffect
    <3>4. ASSUME NEW j \in Keys, NEW m \in Mailboxes, Claim(j, m) PROVE UNCHANGED mails
      BY <3>1, <3>4, ClaimEffect
    <3>5. ASSUME CompleteDelivery \/ Restart PROVE UNCHANGED mails
      BY <3>1, <3>5, CompleteEffect, RestartEffect
    <3> QED BY <1>1, <3>1, <3>2, <3>3, <3>4, <3>5, Touch
  <2>2. PICK taken \in BOOLEAN : Transmit(taken)
    BY <2>1
  <2>3. /\ worker \in Work /\ worker.pc = "claimed"
        /\ \A m \in Mailboxes : mails'[k][m] = IF taken /\ k = worker.key /\ m = worker.to
                                               THEN mails[k][m] + 1 ELSE mails[k][m]
    BY <1>1, <2>2, TransmitEffect DEF RFQInv
  <2>4. k = worker.key
    <3>1. SUFFICES ASSUME k # worker.key PROVE FALSE
      OBVIOUS
    <3>2. mails' = IF taken THEN [mails EXCEPT ![worker.key][worker.to] = @ + 1] ELSE mails
      BY <2>2 DEF Transmit
    <3>3. mails'[k] = mails[k]
      BY <1>1, <3>1, <3>2 DEF RFQInv, TypeOK
    <3> QED BY <1>1, <3>3
  <2>5. worker.to \in Mailboxes /\ attempt[k].to[worker.to] = "sending"
    BY <1>1, <2>3, <2>4 DEF RFQInv, WorkInv, Serving, Work
  <2>6. Attempted(k)
    BY <1>1, <2>5 DEF RFQInv, AttemptInv
  <2> QED BY <1>1, <2>5, <2>6 DEF RFQInv, PrivateInv
<1>2. RFQInv /\ [Next]_vars => [\A k \in Keys : mails'[k] # mails[k] => ~rfq[attempt[k].rfq].private]_vars
  BY <1>1
<1> QED BY <1>2, RFQInvariant, PTL DEF Spec, NoMailOncePrivate

\* Nothing that happens later changes a recorded outcome, a restart included.
THEOREM OutcomesStand == Spec => OutcomeStands
<1>1. ASSUME RFQInv, [Next]_vars, NEW k \in Keys, NEW m \in Mailboxes, attempt[k].to[m] \in Outcomes
      PROVE  attempt'[k].to[m] = attempt[k].to[m]
  <2>0. /\ RFQAssumption /\ TypeOK /\ attempt[k].to \in [Mailboxes -> Delivery]
        /\ attempt[k].to[m] \notin {"none", "pending", "sending"}
    BY <1>1, RFQAssumption DEF RFQInv, TypeOK, Attempt, Outcomes
  <2>1. ASSUME NEW r \in RFQs, AnonymizeRFQ(r) PROVE attempt'[k].to[m] = attempt[k].to[m]
    BY <2>0, <2>1, WithdrawEffect
  <2>2. ASSUME NEW s \in Send, CreateDelivery(s) PROVE attempt'[k].to[m] = attempt[k].to[m]
    <3>1. attempt'[k] = attempt[k] \/ ~Attempted(k)
      BY <2>0, <2>2, CreateEffect
    <3>2. Attempted(k)
      BY <1>1, <2>0 DEF RFQInv, AttemptInv
    <3> QED BY <3>1, <3>2
  <2>3. ASSUME NEW j \in Keys, NEW n \in Mailboxes, Claim(j, n) PROVE attempt'[k].to[m] = attempt[k].to[m]
    <3>1. /\ attempt[j].to[n] = "pending"
          /\ attempt'[j].to = [attempt[j].to EXCEPT ![n] = "sending"]
          /\ k # j => attempt'[k] = attempt[k]
      BY <2>0, <2>3, ClaimEffect
    <3> QED BY <2>0, <3>1
  <2>4. ASSUME CompleteDelivery PROVE attempt'[k].to[m] = attempt[k].to[m]
    <3>1. CASE attempt'[k] = attempt[k]
      BY <3>1
    <3>2. CASE attempt'[k] # attempt[k]
      <4>1. /\ k = worker.key /\ attempt[k].to[worker.to] = "sending"
            /\ attempt'[k].to = [attempt[k].to EXCEPT ![worker.to] = worker.result]
        BY <2>0, <2>4, <3>2, CompleteEffect
      <4> QED BY <2>0, <4>1
    <3> QED BY <3>1, <3>2
  <2>5. ASSUME Restart PROVE attempt'[k].to[m] = attempt[k].to[m]
    BY <2>0, <2>5, RestartEffect
  <2>6. ASSUME NEW taken \in BOOLEAN, Transmit(taken) PROVE attempt'[k].to[m] = attempt[k].to[m]
    BY <2>0, <2>6, TransmitEffect
  <2> QED BY <1>1, <2>0, <2>1, <2>2, <2>3, <2>4, <2>5, <2>6, Touch
<1>2. RFQInv /\ [Next]_vars =>
        [\A k \in Keys, m \in Mailboxes :
           attempt[k].to[m] \in Outcomes => attempt'[k].to[m] = attempt[k].to[m]]_vars
  BY <1>1
<1> QED BY <1>2, RFQInvariant, PTL DEF Spec, OutcomeStands

=============================================================================
