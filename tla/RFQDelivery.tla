---------------------------- MODULE RFQDelivery ----------------------------
(***************************************************************************)
(* Requests for quotation and their mail: SubmitRFQ (storage/sqlite/       *)
(* store.go), rfq_receipt.go, rfq_management.go, delivery_store.go and the *)
(* worker of internal/maildelivery.                                        *)
(*                                                                         *)
(* A visitor's form carries an idempotency key; it may be sent twice at    *)
(* once, and again after a lost answer.  Staff assigns recipients, decides *)
(* to send, and anonymises.  A decision to send carries a delivery key and *)
(* becomes a durable attempt, whose recipients one worker serves; the SMTP *)
(* server may answer yes, no or nothing, the database may fail, and the    *)
(* process drains, dies and restarts at any point.                         *)
(*                                                                         *)
(* The network is part of every action: a call takes effect at any time    *)
(* after it was made, any number of times, and its answer may be lost.     *)
(***************************************************************************)
EXTENDS Integers, FiniteSets

CONSTANTS
  RFQs,       \* identifiers of requests
  Forms,      \* idempotency keys of visitors' forms
  Contents,   \* what a form says; personal data
  Posts,      \* submissions that may be under way together
  Mailboxes,
  Keys,       \* delivery keys
  None,
  Faults,     \* a subset of {"crash", "claim", "complete"}
  MaxRev,     \* bound on the revision of an RFQ
  MaxDefaults \* bound on changes of the default recipients

ASSUME RFQAssumption ==
  /\ RFQs \subseteq Nat
  /\ None \notin RFQs \cup Forms \cup Contents \cup Mailboxes \cup Keys
  /\ Faults \subseteq {"crash", "claim", "complete"}
  /\ MaxRev \in Nat /\ MaxDefaults \in Nat

VARIABLES
  rfq,       \* rfqs and rfq_recipients
  receipt,   \* idempotency_receipts, by form
  defaults,  \* rfq_default_recipients and the revision of their settings
  post,      \* submissions between LookupRFQReceipt and SubmitRFQ
  attempt,   \* smtp_delivery_attempts and their recipients, by delivery key
  up,        \* "up", "draining" or "down"
  wake,      \* the worker's channel holds its one token
  worker,    \* Manager.run and process
  failing,   \* the worker's health report shows a failure
  calling,   \* handlers that have committed and have yet to wake the worker
  mails,     \* external: how often the SMTP server took a message
  told       \* history variable: receipts given, <<form, content, rfq>>

public == <<receipt, post, told>>
mailer == <<wake, worker, failing, mails>>
vars == <<rfq, defaults, attempt, up, calling, public, mailer>>

Statuses == {"new", "in_progress", "closed", "spam"}
Outcomes == {"accepted", "failed", "unknown"}
Delivery == {"none", "pending", "sending"} \cup Outcomes

\* form and content are what was submitted, text is what is retained of it.
RFQ == [form: Forms \cup {None}, content: Contents \cup {None},
        text: Contents \cup {None}, rev: 0..MaxRev, status: Statuses,
        to: SUBSET Mailboxes, private: BOOLEAN]
NoRFQ == [form |-> None, content |-> None, text |-> None, rev |-> 0,
          status |-> "new", to |-> {}, private |-> FALSE]
Receipt == [text: Contents \cup {None}, rfq: RFQs \cup {None}]
NoPost == [form |-> None, content |-> None]

\* A recipient that is not of an attempt has the status "none".
Attempt == [rfq: RFQs \cup {None}, rev: 0..MaxRev, text: Contents \cup {None},
            status: Delivery \cup {"partial"}, to: [Mailboxes -> Delivery]]
NoAttempt == [rfq |-> None, rev |-> 0, text |-> None, status |-> "none",
              to |-> [m \in Mailboxes |-> "none"]]

Send == [rfq: RFQs, rev: 1..MaxRev, key: Keys]
Work == [pc: {"claimed", "done"}, key: Keys, to: Mailboxes, result: Outcomes]
At(pc) == [pc |-> pc, key |-> None, to |-> None, result |-> "unknown"]

Exists(r) == rfq[r].rev > 0
Attempted(k) == attempt[k].rfq # None
Running == up # "down"

TypeOK ==
  /\ rfq \in [RFQs -> RFQ]
  /\ receipt \in [Forms -> Receipt]
  /\ defaults \in [to: SUBSET Mailboxes, rev: 0..MaxDefaults]
  /\ post \in [Posts -> [form: Forms, content: Contents] \cup {NoPost}]
  /\ attempt \in [Keys -> Attempt]
  /\ up \in {"up", "draining", "down"} /\ wake \in BOOLEAN /\ failing \in BOOLEAN
  /\ worker \in Work \cup {At(pc) : pc \in {"idle", "loop", "ready", "return"}}
  /\ calling \subseteq Send
  /\ mails \in [Keys -> [Mailboxes -> Nat]]
  /\ told \subseteq Forms \X Contents \X RFQs

-----------------------------------------------------------------------------
(* The visitor's form *)

\* SubmitRFQ answers from the receipt of a key that has one.
Replayed(f) == receipt[f].rfq # None

SameContentAlways(f, c) == TRUE

\* A key used with another content is a conflict.
SameContent(f, c) == receipt[f].text = c

\* submitPublicRFQ looks for a receipt before it applies the rate limit and
\* reserves disk space.
Ask(p, f, c) ==
  /\ up = "up" /\ post[p] = NoPost
  /\ IF Replayed(f)
     THEN /\ SameContent(f, c)
          /\ told' = told \cup {<<f, c, receipt[f].rfq>>}
          /\ UNCHANGED post
     ELSE /\ post' = [post EXCEPT ![p] = [form |-> f, content |-> c]]
          /\ UNCHANGED told
  /\ UNCHANGED <<rfq, defaults, attempt, up, calling, receipt, mailer>>

\* The rate limit, a lack of disk space or an invalid item ends the request.
Refuse(p) ==
  /\ post[p] # NoPost
  /\ post' = [post EXCEPT ![p] = NoPost]
  /\ UNCHANGED <<rfq, defaults, attempt, up, calling, receipt, told, mailer>>

\* SubmitRFQ, one transaction.  The visitor may never see the answer.  Numbers
\* stand for the random identifiers.
Submit(p) ==
  LET f == post[p].form
      c == post[p].content
  IN /\ Running /\ post[p] # NoPost
     /\ post' = [post EXCEPT ![p] = NoPost]
     /\ IF Replayed(f)
        THEN /\ told' = IF SameContent(f, c) THEN told \cup {<<f, c, receipt[f].rfq>>} ELSE told
             /\ UNCHANGED <<rfq, receipt>>
        ELSE \E r \in RFQs :
             /\ ~Exists(r) /\ (\A q \in RFQs : q < r => Exists(q)) /\ MaxRev > 0
             /\ rfq' = [rfq EXCEPT ![r] = [form |-> f, content |-> c, text |-> c, rev |-> 1,
                                           status |-> "new", to |-> defaults.to, private |-> FALSE]]
             /\ receipt' = [receipt EXCEPT ![f] = [text |-> c, rfq |-> r]]
             /\ told' = told \cup {<<f, c, r>>}
     /\ UNCHANGED <<defaults, attempt, up, calling, mailer>>

-----------------------------------------------------------------------------
(* What staff does to a request.  A call names the revision it saw and changes
   nothing when that is no longer the revision: what remains is a call with the
   current one. *)

Revised(r) == Running /\ Exists(r) /\ rfq[r].rev < MaxRev

CanTransition(from, to) ==
  <<from, to>> \in {<<"new", "in_progress">>, <<"new", "spam">>,
                    <<"in_progress", "closed">>, <<"in_progress", "spam">>,
                    <<"closed", "in_progress">>,
                    <<"spam", "new">>, <<"spam", "in_progress">>}

UpdateRFQStatus(r, next) ==
  /\ Revised(r) /\ CanTransition(rfq[r].status, next)
  /\ rfq' = [rfq EXCEPT ![r].status = next, ![r].rev = @ + 1]
  /\ UNCHANGED <<defaults, attempt, up, calling, public, mailer>>

ReplaceRFQRecipients(r, to) ==
  /\ Revised(r)
  /\ rfq' = [rfq EXCEPT ![r].to = to, ![r].rev = @ + 1]
  /\ UNCHANGED <<defaults, attempt, up, calling, public, mailer>>

UpdateRFQRecipientSettings(to) ==
  /\ Running /\ defaults.rev < MaxDefaults
  /\ defaults' = [to |-> to, rev |-> defaults.rev + 1]
  /\ UNCHANGED <<rfq, attempt, up, calling, public, mailer>>

\* aggregateDeliveryStatus
Aggregate(to) ==
  LET some(s) == \E m \in Mailboxes : to[m] = s
  IN IF some("unknown") THEN "unknown"
     ELSE IF some("pending") \/ some("sending") THEN "sending"
     ELSE IF some("failed") /\ some("accepted") THEN "partial"
     ELSE IF some("failed") THEN "failed" ELSE "accepted"

InFlightNever(r) == FALSE

\* AnonymizeRFQ refuses while a recipient is being served.
InFlight(r) == \E k \in Keys, m \in Mailboxes : attempt[k].rfq = r /\ attempt[k].to[m] = "sending"

WithdrawnNone(to) == to

Withdrawn(to) == [m \in Mailboxes |-> IF to[m] = "pending" THEN "failed" ELSE to[m]]

ReceiptDeleted(r) ==
  [f \in Forms |-> IF receipt[f].rfq = r THEN [text |-> None, rfq |-> None] ELSE receipt[f]]

\* AnonymizeRFQ, on the receipts: no content has the hash "anonymized".
ReceiptScrubbed(r) ==
  [f \in Forms |-> IF receipt[f].rfq = r THEN [receipt[f] EXCEPT !.text = None] ELSE receipt[f]]

Anonymized(row) == [row EXCEPT !.text = None, !.to = {}, !.private = TRUE, !.rev = @ + 1]

AttemptScrubbed(a) ==
  [a EXCEPT !.text = None, !.to = Withdrawn(@), !.status = Aggregate(Withdrawn(a.to))]

AnonymizeRFQ(r) ==
  /\ Revised(r) /\ ~rfq[r].private /\ ~InFlight(r)
  /\ attempt' = [k \in Keys |->
       IF attempt[k].rfq = r THEN AttemptScrubbed(attempt[k]) ELSE attempt[k]]
  /\ receipt' = ReceiptScrubbed(r)
  /\ rfq' = [rfq EXCEPT ![r] = Anonymized(@)]
  /\ UNCHANGED <<defaults, up, calling, post, told, mailer>>

-----------------------------------------------------------------------------
(* The server takes a decision to send: CreateSMTPDeliveryAttempt, then Wake *)

\* A key that is known answers for the same request and revision only.
SameDecision(s) == attempt[s.key].rfq = s.rfq /\ attempt[s.key].rev = s.rev

Sendable(s) == rfq[s.rfq].rev = s.rev /\ ~rfq[s.rfq].private /\ rfq[s.rfq].to # {}

NewAttempt(s) ==
  [rfq |-> s.rfq, rev |-> s.rev, text |-> rfq[s.rfq].text, status |-> "pending",
   to |-> [m \in Mailboxes |-> IF m \in rfq[s.rfq].to THEN "pending" ELSE "none"]]

CreateDelivery(s) ==
  /\ up = "up"
  /\ IF Attempted(s.key) THEN SameDecision(s) /\ UNCHANGED attempt
     ELSE Sendable(s) /\ attempt' = [attempt EXCEPT ![s.key] = NewAttempt(s)]
  /\ calling' = calling \cup {s}
  /\ UNCHANGED <<rfq, defaults, up, public, mailer>>

WokenIfWaiting == IF up = "up" /\ worker.pc = "idle" THEN TRUE ELSE wake

\* Manager.Wake leaves a token, unless there is one or the manager drains.  It may
\* never be called: CreateSMTPDeliveryAttempt reads the attempt back after its
\* transaction, and that fails when the client is gone.
Woken == IF up = "up" THEN TRUE ELSE wake

WakeWorker(s) ==
  /\ s \in calling
  /\ calling' = calling \ {s}
  /\ wake' = Woken
  /\ UNCHANGED <<rfq, defaults, attempt, up, public, worker, failing, mails>>

-----------------------------------------------------------------------------
(* The worker: Manager.run and process *)

TakeWake ==
  /\ Running /\ worker.pc = "idle" /\ wake
  /\ wake' = FALSE /\ worker' = At("loop")
  /\ UNCHANGED <<rfq, defaults, attempt, up, calling, public, failing, mails>>

Loop ==
  /\ worker.pc = "loop"
  /\ worker' = IF up = "up" THEN At("ready") ELSE At("idle")
  /\ UNCHANGED <<rfq, defaults, attempt, up, calling, public, wake, failing, mails>>

Claimed(a, m) ==
  [a EXCEPT !.to[m] = "sending",
            !.status = IF \E n \in Mailboxes : a.to[n] = "unknown" THEN "unknown" ELSE "sending"]

\* The statement takes the pending recipient with the oldest attempt by the
\* clock; which one it is, is left open here.
Claim(k, m) ==
  /\ worker.pc = "ready" /\ attempt[k].to[m] = "pending"
  /\ attempt' = [attempt EXCEPT ![k] = Claimed(@, m)]
  /\ worker' = [pc |-> "claimed", key |-> k, to |-> m, result |-> "unknown"]
  /\ UNCHANGED <<rfq, defaults, up, calling, public, wake, failing, mails>>

NothingToClaim ==
  /\ worker.pc = "ready" /\ \A k \in Keys, m \in Mailboxes : attempt[k].to[m] # "pending"
  /\ worker' = At("return")
  /\ UNCHANGED <<rfq, defaults, attempt, up, calling, public, wake, failing, mails>>

\* It reports its health and goes back to wait; a wake may come before it does.
Return ==
  /\ worker.pc = "return"
  /\ worker' = At("idle") /\ failing' = FALSE
  /\ UNCHANGED <<rfq, defaults, attempt, up, calling, public, wake, mails>>

ClaimFails ==
  /\ "claim" \in Faults /\ worker.pc = "ready"
  /\ worker' = At("idle") /\ failing' = TRUE
  /\ UNCHANGED <<rfq, defaults, attempt, up, calling, public, wake, mails>>

SendResultHasty(taken) == IF taken THEN {"accepted", "failed"} ELSE {"failed"}

\* SMTPSender.Send: an error up to the opening of DATA is a failure, one while
\* the message is written or committed leaves it open whether it was taken.
SendResult(taken) == IF taken THEN {"accepted", "unknown"} ELSE {"failed", "unknown"}

Transmit(taken) ==
  /\ worker.pc = "claimed"
  /\ \E result \in SendResult(taken) : worker' = [worker EXCEPT !.pc = "done", !.result = result]
  /\ mails' = IF taken THEN [mails EXCEPT ![worker.key][worker.to] = @ + 1] ELSE mails
  /\ UNCHANGED <<rfq, defaults, attempt, up, calling, public, wake, failing>>

\* CompleteSMTPDeliveryRecipient changes a recipient that is being sent to.
Completed(a, m, outcome) ==
  LET to == [a.to EXCEPT ![m] = outcome] IN [a EXCEPT !.to = to, !.status = Aggregate(to)]

CompleteDelivery ==
  /\ worker.pc = "done"
  /\ IF attempt[worker.key].to[worker.to] = "sending"
     THEN /\ attempt' = [attempt EXCEPT ![worker.key] = Completed(@, worker.to, worker.result)]
          /\ worker' = At("loop") /\ failing' = FALSE
     ELSE UNCHANGED attempt /\ worker' = At("idle") /\ failing' = TRUE
  /\ UNCHANGED <<rfq, defaults, up, calling, public, wake, mails>>

CompletionFails ==
  /\ "complete" \in Faults /\ worker.pc = "done"
  /\ worker' = At("idle") /\ failing' = TRUE
  /\ UNCHANGED <<rfq, defaults, attempt, up, calling, public, wake, mails>>

-----------------------------------------------------------------------------
(* The process *)

BeginDrain ==
  /\ up = "up" /\ up' = "draining"
  /\ UNCHANGED <<rfq, defaults, attempt, calling, public, mailer>>

Gone ==
  /\ up' = "down" /\ worker' = At("idle") /\ wake' = FALSE /\ failing' = FALSE
  /\ calling' = {} /\ post' = [p \in Posts |-> NoPost]
  /\ UNCHANGED <<rfq, defaults, attempt, receipt, told, mails>>

\* Close waits for the worker.
Stop == up = "draining" /\ worker.pc = "idle" /\ Gone

Crash == "crash" \in Faults /\ Running /\ Gone

InterruptedAgain(to) == [m \in Mailboxes |-> IF to[m] = "sending" THEN "pending" ELSE to[m]]

\* ReconcileSMTPDeliveries
Interrupted(to) == [m \in Mailboxes |-> IF to[m] = "sending" THEN "unknown" ELSE to[m]]

Reconciled(a) ==
  LET to == Interrupted(a.to)
  IN [a EXCEPT !.to = to,
               !.status = IF \E m \in Mailboxes : to[m] = "unknown" THEN "unknown" ELSE @]

\* NewManager
Restart ==
  /\ up = "down" /\ up' = "up" /\ wake' = TRUE
  /\ attempt' = [k \in Keys |-> Reconciled(attempt[k])]
  /\ UNCHANGED <<rfq, defaults, calling, public, worker, failing, mails>>

-----------------------------------------------------------------------------
Init ==
  /\ rfq = [r \in RFQs |-> NoRFQ]
  /\ receipt = [f \in Forms |-> [text |-> None, rfq |-> None]]
  /\ defaults = [to |-> {}, rev |-> 0]
  /\ post = [p \in Posts |-> NoPost]
  /\ attempt = [k \in Keys |-> NoAttempt]
  /\ up = "up" /\ wake = TRUE /\ worker = At("idle") /\ failing = FALSE
  /\ calling = {}
  /\ mails = [k \in Keys |-> [m \in Mailboxes |-> 0]]
  /\ told = {}

Visitor ==
  \E p \in Posts : Refuse(p) \/ Submit(p) \/ \E f \in Forms, c \in Contents : Ask(p, f, c)

Staff ==
  \/ \E to \in SUBSET Mailboxes : UpdateRFQRecipientSettings(to)
  \/ \E r \in RFQs :
       \/ AnonymizeRFQ(r)
       \/ \E next \in Statuses : UpdateRFQStatus(r, next)
       \/ \E to \in SUBSET Mailboxes : ReplaceRFQRecipients(r, to)

Server ==
  \/ \E r \in RFQs, rev \in 1..MaxRev, k \in Keys : CreateDelivery([rfq |-> r, rev |-> rev, key |-> k])
  \/ \E s \in calling : WakeWorker(s)

Worker ==
  \/ TakeWake \/ Loop \/ NothingToClaim \/ Return \/ CompleteDelivery
  \/ \E k \in Keys, m \in Mailboxes : Claim(k, m)
  \/ \E taken \in BOOLEAN : Transmit(taken)

WorkerFails == ClaimFails \/ CompletionFails

Process == BeginDrain \/ Stop \/ Crash \/ Restart

Next == Visitor \/ Staff \/ Server \/ Worker \/ WorkerFails \/ Process

Spec == Init /\ [][Next]_vars

\* The worker runs, a process that drains stops and is started again.  A failing
\* statement ends a round of the worker and may come in place of a step of it.
FairSpec ==
  /\ Spec
  /\ WF_vars(Worker \/ WorkerFails)
  /\ WF_vars(Stop \/ Restart)

-----------------------------------------------------------------------------
(* Properties *)

\* A form gives one request, however often and however close together it is
\* sent, and also when the request has been anonymised since.
OneRFQPerForm ==
  \A q, r \in RFQs : Exists(q) /\ Exists(r) /\ rfq[q].form = rfq[r].form => q = r

\* A receipt names a request that was made from this form with this content.
ReceiptsTruthful ==
  \A t \in told : rfq[t[3]].form = t[1] /\ rfq[t[3]].content = t[2]

\* The SMTP server gets a message of one decision to one recipient at most
\* once, through crashes, failed statements, wakes and repeated sends.
AtMostOnce == \A k \in Keys, m \in Mailboxes : mails[k][m] <= 1

\* What is recorded of a delivery is true: accepted was taken, failed and
\* pending were not, and the status of an attempt sums up its recipients.
RecordTruthful ==
  \A k \in Keys :
    /\ \A m \in Mailboxes :
         /\ attempt[k].to[m] = "accepted" => mails[k][m] = 1
         /\ attempt[k].to[m] \in {"none", "pending", "failed"} => mails[k][m] = 0
    /\ Attempted(k) /\ attempt[k].status # "pending" =>
         attempt[k].status = Aggregate(attempt[k].to)

\* After a request is anonymised neither its attempts nor its receipt hold its
\* text, and nothing of it waits to be sent.
NothingRetained ==
  \A r \in RFQs : rfq[r].private =>
    /\ rfq[r].text = None
    /\ \A k \in Keys : attempt[k].rfq = r =>
         attempt[k].text = None /\ \A m \in Mailboxes : attempt[k].to[m] \notin {"pending", "sending"}
    /\ \A f \in Forms : receipt[f].rfq = r => receipt[f].text = None

\* No mail about an anonymised request leaves.
NoMailOncePrivate ==
  [][\A k \in Keys : mails'[k] # mails[k] => ~rfq[attempt[k].rfq].private]_vars

\* An outcome stands: an unknown delivery is never tried again on its own.
OutcomeStands ==
  [][\A k \in Keys, m \in Mailboxes :
       attempt[k].to[m] \in Outcomes => attempt'[k].to[m] = attempt[k].to[m]]_vars

\* No wake is lost: while the process lasts, a pending recipient gets an outcome
\* or the health report tells that the worker failed, unless the call that made
\* the decision has not come to its wake.
EventuallyServed ==
  \A k \in Keys, m \in Mailboxes :
    attempt[k].to[m] = "pending" ~>
      \/ attempt[k].to[m] \in Outcomes
      \/ failing \/ up # "up" \/ \E s \in calling : s.key = k
=============================================================================
