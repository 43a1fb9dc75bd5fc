------------------------------ MODULE Payments ------------------------------
(***************************************************************************)
(* Paying an invoice (services/api/payments): pay requests, the payment    *)
(* gateways, and the webhook requests by which the gateways report.        *)
(*                                                                         *)
(* Nothing runs in a transaction of more than one statement, so a request  *)
(* is a sequence of single reads, gateway calls and writes, and requests   *)
(* interleave between any two of them.  An attempt is one pay request,     *)
(* the charge it asks a gateway for and the Payment row it leaves.         *)
(*                                                                         *)
(* A reference stands for a pair of provider and provider_reference.  What *)
(* a gateway does is modelled from the providers' calls and parsers.       *)
(***************************************************************************)
EXTENDS Naturals, Sequences

CONSTANTS
  Attempts,       \* pay requests
  Invoices,
  InvoiceOf,      \* the invoice of each attempt
  Refs, NoRef,    \* references, and the empty one
  StoredRef,      \* the reference initiate_payment finds in the gateway's reply
  CallbackRef,    \* the reference parse_webhook finds in the callback
  Chatty,         \* attempts whose gateway also reports events before the outcome
  Async,          \* attempts whose gateway is told the async webhook URL
  Handlers, Free, \* the web workers, and that one is free
  DeletePattern,  \* whether the cache backend has delete_pattern
  MaxExtra,       \* bound: callbacks besides the first unanswered one
  MaxErrors,      \* bound: exceptions in webhook handlers
  MaxCrashes      \* bound: requests that die with their worker

Stages == {"payment", "invoice", "invalidate", "publish"}

\* A webhook request under way: what it reports, and the row it found.
Jobs == [at : Stages, callback : Attempts, ok : BOOLEAN, final : BOOLEAN, row : Attempts]

ASSUME PaymentsAssumption ==
  /\ InvoiceOf \in [Attempts -> Invoices]
  /\ StoredRef \in [Attempts -> Refs \cup {NoRef}]
  /\ CallbackRef \in [Attempts -> Refs \cup {NoRef}]
  /\ DeletePattern \in BOOLEAN
  /\ MaxExtra \in Nat /\ MaxErrors \in Nat /\ MaxCrashes \in Nat
  /\ Free \notin Jobs

\* A reference is the gateway's own for one attempt, or the invoice number that
\* airtel.py, flutterwave.py and pesapal.py send along: never another invoice's.
ASSUME ReferenceAssumption ==
  \A a, b \in Attempts :
    StoredRef[a] = CallbackRef[b] /\ StoredRef[a] # NoRef => InvoiceOf[a] = InvoiceOf[b]

VARIABLES
  pc,         \* per attempt: where its pay request stands
  charge,     \* per attempt: what the gateway has made of it
  status,     \* per attempt: status of its Payment row, if there is one
  ref,        \* per attempt: provider_reference of that row
  created,    \* the attempts with a row, by created_at
  invoice,    \* status of each invoice
  job,        \* per web worker: the webhook request it runs
  told,       \* the attempts whose outcome a webhook request has answered
  published,  \* the rows payment.received was published for
  extra, errors, crashes

rows == <<status, ref, created>>
bounds == <<extra, errors, crashes>>
vars == <<pc, charge, status, ref, created, invoice, job, told, published, extra, errors, crashes>>

Init ==
  /\ pc = [a \in Attempts |-> "new"]
  /\ charge = [a \in Attempts |-> "none"]
  /\ status = [a \in Attempts |-> "none"]
  /\ ref = [a \in Attempts |-> NoRef]
  /\ created = << >>
  /\ invoice = [i \in Invoices |-> "PENDING"]
  /\ job = [h \in Handlers |-> Free]
  /\ told = {}
  /\ published = {}
  /\ extra = 0 /\ errors = 0 /\ crashes = 0

-----------------------------------------------------------------------------
\* post reads the invoice.  Requests refused for other reasons change nothing.
CheckInvoice(a) ==
  /\ pc[a] = "new"
  /\ pc' = [pc EXCEPT ![a] = IF invoice[InvoiceOf[a]] = "PAID" THEN "refused" ELSE "checked"]
  /\ UNCHANGED <<charge, rows, invoice, job, told, published, bounds>>

\* initiate_payment: the gateway takes the request and its reply arrives, or is
\* lost to a timeout, which the provider answers like a refusal.
InitiatePayment(a) ==
  /\ pc[a] = "checked"
  /\ charge' = [charge EXCEPT ![a] = "asked"]
  /\ pc' \in {[pc EXCEPT ![a] = "success"], [pc EXCEPT ![a] = "failure"]}
  /\ UNCHANGED <<rows, invoice, job, told, published, bounds>>

\* initiate_payment: not configured, no token, or refused by the gateway.
InitiateFails(a) ==
  /\ pc[a] = "checked"
  /\ pc' = [pc EXCEPT ![a] = "failure"]
  /\ UNCHANGED <<charge, rows, invoice, job, told, published, bounds>>

\* Payment.objects.create: a failed result carries no reference.
CreatePayment(a) ==
  /\ pc[a] \in {"success", "failure"}
  /\ status' = [status EXCEPT ![a] = IF pc[a] = "success" THEN "PENDING" ELSE "FAILED"]
  /\ ref' = [ref EXCEPT ![a] = IF pc[a] = "success" THEN StoredRef[a] ELSE NoRef]
  /\ created' = Append(created, a)
  /\ pc' = [pc EXCEPT ![a] = "done"]
  /\ UNCHANGED <<charge, invoice, job, told, published, bounds>>

Crash == crashes < MaxCrashes /\ crashes' = crashes + 1

\* The pay request dies between two of its steps, or create raises.
PayDies(a) ==
  /\ pc[a] \in {"checked", "success", "failure"}
  /\ Crash
  /\ pc' = [pc EXCEPT ![a] = "dead"]
  /\ UNCHANGED <<charge, rows, invoice, job, told, published, extra, errors>>

-----------------------------------------------------------------------------
\* The payer confirms or declines.
GatewaySettles(a) ==
  /\ charge[a] = "asked"
  /\ charge' \in {[charge EXCEPT ![a] = "charged"], [charge EXCEPT ![a] = "declined"]}
  /\ UNCHANGED <<pc, rows, invoice, job, told, published, bounds>>

\* Payment.objects.filter(provider, reference).first(): rows are ordered by
\* -created_at, so the newest one.
FirstPayment(r, p) ==
  \E n \in 1 .. Len(created) :
    /\ created[n] = p /\ ref[p] = r
    /\ \A m \in 1 .. Len(created) : ref[created[m]] = r => m <= n

\* The webhook request of h has been answered with 200.
Answer(h) ==
  /\ job' = [job EXCEPT ![h] = Free]
  /\ told' = IF job[h].final THEN told \cup {job[h].callback} ELSE told

\* Mutant: the gateway is answered before the callback is processed.
ReceiveAnswersFirst(h, a, ok, final) ==
  /\ job[h] = Free
  /\ told' = IF final THEN told \cup {a} ELSE told
  /\ \/ /\ \A p \in Attempts : ~FirstPayment(CallbackRef[a], p)
        /\ UNCHANGED job
     \/ \E p \in Attempts :
          /\ CallbackRef[a] # NoRef
          /\ FirstPayment(CallbackRef[a], p)
          /\ job' = [job EXCEPT ![h] =
               [at |-> "payment", callback |-> a, ok |-> ok, final |-> final, row |-> p]]

\* _process_webhook up to the lookup.  Without a reference or a payment the
\* callback is answered and forgotten.  Callbacks are taken as authentic: a is
\* an attempt whose gateway reports this outcome.  The mobile-money views do
\* not check that themselves (AllowAny, no signature), so it is an assumption
\* on who can reach them.
Receive(h, a, ok, final) ==
  /\ job[h] = Free
  /\ \/ /\ CallbackRef[a] = NoRef \/ \A p \in Attempts : ~FirstPayment(CallbackRef[a], p)
        /\ told' = IF final THEN told \cup {a} ELSE told
        /\ UNCHANGED job
     \/ \E p \in Attempts :
          /\ CallbackRef[a] # NoRef
          /\ FirstPayment(CallbackRef[a], p)
          /\ job' = [job EXCEPT ![h] =
               [at |-> "payment", callback |-> a, ok |-> ok, final |-> final, row |-> p]]
          /\ UNCHANGED told

Outcome(a) == charge[a] \in {"charged", "declined"}

InProgress(a) == \E h \in Handlers : job[h] # Free /\ job[h].callback = a /\ job[h].final

\* The gateway reports the outcome until it is answered.
Notify(h, a) ==
  /\ Outcome(a) /\ a \notin told /\ ~InProgress(a)
  /\ Receive(h, a, charge[a] = "charged", TRUE)
  /\ UNCHANGED <<pc, charge, rows, invoice, published, bounds>>

Extra == extra < MaxExtra /\ extra' = extra + 1

\* It reports the outcome again, at any time.
NotifyAgain(h, a) ==
  /\ Outcome(a) /\ (a \in told \/ InProgress(a))
  /\ Extra
  /\ Receive(h, a, charge[a] = "charged", TRUE)
  /\ UNCHANGED <<pc, charge, rows, invoice, published, errors, crashes>>

\* A callback for an earlier event, such as payment_intent.created, arrives, now
\* or after the outcome: parse_webhook takes it for a failure.
NotifyProgress(h, a) ==
  /\ a \in Chatty /\ charge[a] # "none"
  /\ Extra
  /\ Receive(h, a, FALSE, FALSE)
  /\ UNCHANGED <<pc, charge, rows, invoice, published, errors, crashes>>

At(h, stage) == job[h] # Free /\ job[h].at = stage

GoTo(h, stage) == job' = [job EXCEPT ![h].at = stage] /\ UNCHANGED told

\* Mutant: the invoice is settled whatever was reported.
SavePaymentUnchecked(h) ==
  /\ At(h, "payment")
  /\ status' = [status EXCEPT ![job[h].row] = IF job[h].ok THEN "SUCCESS" ELSE "FAILED"]
  /\ GoTo(h, "invoice")
  /\ UNCHANGED <<pc, charge, ref, created, invoice, published, bounds>>

\* Mutant: the event is published before the invoice is saved.
SavePaymentPublishes(h) ==
  /\ At(h, "payment")
  /\ status' = [status EXCEPT ![job[h].row] = IF job[h].ok THEN "SUCCESS" ELSE "FAILED"]
  /\ published' = IF job[h].ok THEN published \cup {job[h].row} ELSE published
  /\ \/ job[h].ok /\ GoTo(h, "invoice")
     \/ ~job[h].ok /\ Answer(h)
  /\ UNCHANGED <<pc, charge, ref, created, invoice, bounds>>

\* Mutant: the status goes to the attempt the callback names, not to the row found.
SavePaymentOfCallback(h) ==
  /\ At(h, "payment")
  /\ status' = [status EXCEPT ![job[h].callback] = IF job[h].ok THEN "SUCCESS" ELSE "FAILED"]
  /\ \/ job[h].ok /\ GoTo(h, "invoice")
     \/ ~job[h].ok /\ Answer(h)
  /\ UNCHANGED <<pc, charge, ref, created, invoice, published, bounds>>

\* payment.save(update_fields=['status', ...]), whatever the status was.
SavePayment(h) ==
  /\ At(h, "payment")
  /\ status' = [status EXCEPT ![job[h].row] = IF job[h].ok THEN "SUCCESS" ELSE "FAILED"]
  /\ \/ job[h].ok /\ GoTo(h, "invoice")
     \/ ~job[h].ok /\ Answer(h)
  /\ UNCHANGED <<pc, charge, ref, created, invoice, published, bounds>>

\* invoice.save(update_fields=['status', 'paid_at']).
SaveInvoice(h) ==
  /\ At(h, "invoice")
  /\ invoice' = [invoice EXCEPT ![InvoiceOf[job[h].row]] = "PAID"]
  /\ GoTo(h, "invalidate")
  /\ UNCHANGED <<pc, charge, rows, published, bounds>>

\* invalidate_dashboard_caches, where the asynchronous handler ends.
Invalidate(h) ==
  /\ At(h, "invalidate") /\ DeletePattern
  /\ \/ job[h].callback \notin Async /\ GoTo(h, "publish")
     \/ job[h].callback \in Async /\ Answer(h)
  /\ UNCHANGED <<pc, charge, rows, invoice, published, bounds>>

Publish(h) ==
  /\ At(h, "publish")
  /\ published' = published \cup {job[h].row}
  /\ Answer(h)
  /\ UNCHANGED <<pc, charge, rows, invoice, bounds>>

Error == errors < MaxErrors /\ errors' = errors + 1

\* An exception on the way is logged, and the view answers 200.  The publish of
\* an event swallows its own.  Without delete_pattern the invalidation raises.
HandlerRaises(h) ==
  /\ job[h] # Free
  /\ IF At(h, "invalidate") /\ ~DeletePattern THEN UNCHANGED errors ELSE Error
  /\ Answer(h)
  /\ UNCHANGED <<pc, charge, rows, invoice, published, extra, crashes>>

\* The webhook request dies: the gateway has no answer.
HandlerDies(h) ==
  /\ job[h] # Free
  /\ Crash
  /\ job' = [job EXCEPT ![h] = Free]
  /\ UNCHANGED <<pc, charge, rows, invoice, told, published, extra, errors>>

-----------------------------------------------------------------------------
Pay(a) == CheckInvoice(a) \/ InitiatePayment(a) \/ InitiateFails(a) \/ CreatePayment(a)

Handle(h) == SavePayment(h) \/ SaveInvoice(h) \/ Invalidate(h) \/ Publish(h)

Next ==
  \/ \E a \in Attempts : Pay(a) \/ PayDies(a) \/ GatewaySettles(a)
  \/ \E h \in Handlers, a \in Attempts : Notify(h, a) \/ NotifyAgain(h, a) \/ NotifyProgress(h, a)
  \/ \E h \in Handlers : Handle(h) \/ HandlerRaises(h) \/ HandlerDies(h)

\* A webhook request that can go on does, and a gateway that has no answer
\* reports again.  Nothing is assumed of payers, pay requests or faults.
Fairness ==
  /\ \A h \in Handlers : WF_vars(Handle(h))
  /\ \A a \in Attempts : WF_vars(\E h \in Handlers : Notify(h, a))

Spec == Init /\ [][Next]_vars /\ Fairness

-----------------------------------------------------------------------------
\* Statuses are among those of the code, and a Payment row is there exactly for
\* the pay requests that have finished.
TypeOK ==
  /\ pc \in [Attempts -> {"new", "refused", "checked", "success", "failure", "done", "dead"}]
  /\ charge \in [Attempts -> {"none", "asked", "charged", "declined"}]
  /\ status \in [Attempts -> {"none", "PENDING", "SUCCESS", "FAILED"}]
  /\ \A a \in Attempts : status[a] # "none" <=> pc[a] = "done"
  /\ ref \in [Attempts -> Refs \cup {NoRef}]
  /\ created \in Seq(Attempts)
  /\ invoice \in [Invoices -> {"PENDING", "PAID"}]
  /\ job \in [Handlers -> Jobs \cup {Free}]
  /\ told \subseteq Attempts
  /\ published \subseteq Attempts
  /\ extra \in 0 .. MaxExtra /\ errors \in 0 .. MaxErrors /\ crashes \in 0 .. MaxCrashes

\* An invoice is PAID only if a gateway has charged an attempt to pay it, however
\* callbacks are repeated, delayed or found by a reference that attempts share.
PaidMeansCharged ==
  \A i \in Invoices :
    invoice[i] = "PAID" => \E a \in Attempts : InvoiceOf[a] = i /\ charge[a] = "charged"

\* Whoever hears of payment.received finds the invoice PAID.
AnnouncedIsPaid == \A a \in published : invoice[InvoiceOf[a]] = "PAID"

\* There is a row the callback for a can find.
Known(a) == CallbackRef[a] # NoRef /\ \E p \in Attempts : FirstPayment(CallbackRef[a], p)

\* A charge the gateway has still to report marks the invoice PAID if its row is
\* there: requests that die are made up for by the gateway's next report, as
\* long as no exception is answered with 200.
ChargedBecomesPaid ==
  [](errors = 0) =>
    \A a \in Attempts :
      (charge[a] = "charged" /\ a \notin told /\ Known(a)) ~> invoice[InvoiceOf[a]] = "PAID"

\* docs/webhook-events.md:70, of payment.received: "Fired when a payment is
\* successfully processed."  No error is counted, so none excuses the handler.
ProcessedIsAnnounced ==
  [][\A h \in Handlers :
       job[h] # Free /\ job'[h] = Free /\ job[h].ok /\ errors' = 0 /\ crashes' = 0
         => job[h].row \in published']_vars

=============================================================================
