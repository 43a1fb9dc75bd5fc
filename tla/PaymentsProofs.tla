--------------------------- MODULE PaymentsProofs ---------------------------
(***************************************************************************)
(* Theorems about Payments, for any attempts, invoices, references and web *)
(* workers, and any number of repeated callbacks, exceptions and crashes.  *)
(***************************************************************************)
EXTENDS Payments, TLAPS

\* A charge is asked for once, a row carries the reference of its attempt or none,
\* and what created lists are rows.
RowsSound ==
  /\ \A a \in Attempts : pc[a] \in {"new", "checked"} => charge[a] = "none"
  /\ \A a \in Attempts : ref[a] \in {NoRef, StoredRef[a]}
  /\ \A n \in 1 .. Len(created) : status[created[n]] # "none"

\* What a webhook request knows is still so: the row it found is the one its
\* callback names, the charge it reports was made, and the invoice is PAID once
\* it is past saving it.
JobSound(h) ==
  LET j == job[h]
  IN  /\ CallbackRef[j.callback] # NoRef
      /\ ref[j.row] = CallbackRef[j.callback]
      /\ status[j.row] # "none"
      /\ j.ok => charge[j.callback] = "charged"
      /\ j.at # "payment" => j.ok
      /\ j.at \in {"invalidate", "publish"} => invoice[InvoiceOf[j.row]] = "PAID"

JobsSound == \A h \in Handlers : job[h] # Free => JobSound(h)

IInv == TypeOK /\ RowsSound /\ JobsSound /\ PaidMeansCharged /\ AnnouncedIsPaid

-----------------------------------------------------------------------------
\* The initial state.
LEMMA InitInv == Init => IInv
  <1> SUFFICES ASSUME Init PROVE IInv
    OBVIOUS
  <1> USE PaymentsAssumption DEF Init
  <1>1. TypeOK
    BY DEF TypeOK
  <1>2. RowsSound /\ JobsSound /\ PaidMeansCharged /\ AnnouncedIsPaid
    BY DEF RowsSound, JobsSound, PaidMeansCharged, AnnouncedIsPaid
  <1> QED BY <1>1, <1>2 DEF IInv

\* A request under way is a job.
LEMMA BusyIsJob ==
  ASSUME TypeOK, NEW h \in Handlers, job[h] # Free
  PROVE  /\ job[h] \in Jobs
         /\ job[h].at \in Stages /\ job[h].callback \in Attempts
         /\ job[h].ok \in BOOLEAN /\ job[h].final \in BOOLEAN /\ job[h].row \in Attempts
  BY DEF TypeOK, Jobs

\* What the pay requests and the gateway do leaves webhook requests as they are.
LEMMA PayInv ==
  ASSUME IInv, NEW a \in Attempts, Pay(a) \/ PayDies(a) \/ GatewaySettles(a)
  PROVE  IInv'
  <1> USE PaymentsAssumption
  <1>0. TypeOK /\ RowsSound /\ JobsSound /\ PaidMeansCharged /\ AnnouncedIsPaid
    BY DEF IInv
  <1> USE DEF rows, bounds
  <1>1. CASE CheckInvoice(a)
    <2>1. TypeOK'
      BY <1>0, <1>1 DEF TypeOK, CheckInvoice
    <2>2. RowsSound'
      BY <1>0, <1>1 DEF TypeOK, RowsSound, CheckInvoice
    <2> QED BY <1>0, <1>1, <2>1, <2>2 DEF IInv, CheckInvoice, JobsSound, JobSound,
                                PaidMeansCharged, AnnouncedIsPaid
  <1>2. CASE InitiatePayment(a)
    <2>1. TypeOK'
      BY <1>0, <1>2 DEF TypeOK, InitiatePayment
    <2>2. RowsSound'
      BY <1>0, <1>2 DEF TypeOK, RowsSound, InitiatePayment
    <2>3. \A b \in Attempts : charge[b] = "charged" => charge'[b] = "charged"
      BY <1>0, <1>2 DEF TypeOK, RowsSound, InitiatePayment
    <2>4. JobsSound'
      <3> SUFFICES ASSUME NEW h \in Handlers, job[h] # Free
                   PROVE  JobSound(h)'
        BY <1>2 DEF JobsSound, InitiatePayment
      <3>1. JobSound(h) /\ job[h].callback \in Attempts
        BY <1>0, BusyIsJob DEF JobsSound
      <3> QED BY <1>2, <2>3, <3>1 DEF JobSound, InitiatePayment
    <2> QED BY <1>0, <1>2, <2>1, <2>2, <2>3, <2>4 DEF IInv, InitiatePayment,
                                PaidMeansCharged, AnnouncedIsPaid
  <1>3. CASE InitiateFails(a)
    <2>1. TypeOK'
      BY <1>0, <1>3 DEF TypeOK, InitiateFails
    <2>2. RowsSound'
      BY <1>0, <1>3 DEF TypeOK, RowsSound, InitiateFails
    <2> QED BY <1>0, <1>3, <2>1, <2>2 DEF IInv, InitiateFails, JobsSound, JobSound,
                                PaidMeansCharged, AnnouncedIsPaid
  <1>4. CASE CreatePayment(a)
    <2>1. TypeOK'
      BY <1>0, <1>4 DEF TypeOK, CreatePayment
    <2>2. RowsSound'
      BY <1>0, <1>4 DEF TypeOK, RowsSound, CreatePayment
    <2>3. status[a] = "none"
      BY <1>0, <1>4 DEF TypeOK, CreatePayment
    <2>4. JobsSound'
      <3> SUFFICES ASSUME NEW h \in Handlers, job[h] # Free
                   PROVE  JobSound(h)'
        BY <1>4 DEF JobsSound, CreatePayment
      <3>1. JobSound(h) /\ job[h].row \in Attempts
        BY <1>0, BusyIsJob DEF JobsSound
      <3>2. job[h].row # a
        BY <2>3, <3>1 DEF JobSound
      <3> QED BY <1>0, <1>4, <3>1, <3>2 DEF TypeOK, JobSound, CreatePayment
    <2> QED BY <1>0, <1>4, <2>1, <2>2, <2>4 DEF IInv, CreatePayment, PaidMeansCharged, AnnouncedIsPaid
  <1>5. CASE PayDies(a)
    <2>1. TypeOK'
      BY <1>0, <1>5 DEF TypeOK, PayDies, Crash
    <2>2. RowsSound'
      BY <1>0, <1>5 DEF TypeOK, RowsSound, PayDies
    <2> QED BY <1>0, <1>5, <2>1, <2>2 DEF IInv, PayDies, JobsSound, JobSound,
                                PaidMeansCharged, AnnouncedIsPaid
  <1>6. CASE GatewaySettles(a)
    <2>1. TypeOK'
      BY <1>0, <1>6 DEF TypeOK, GatewaySettles
    <2>2. \A b \in Attempts : charge[b] = "charged" => charge'[b] = "charged"
      BY <1>0, <1>6 DEF TypeOK, GatewaySettles
    <2>3. JobsSound'
      <3> SUFFICES ASSUME NEW h \in Handlers, job[h] # Free
                   PROVE  JobSound(h)'
        BY <1>6 DEF JobsSound, GatewaySettles
      <3>1. JobSound(h) /\ job[h].callback \in Attempts
        BY <1>0, BusyIsJob DEF JobsSound
      <3> QED BY <1>6, <2>2, <3>1 DEF JobSound, GatewaySettles
    <2>4. RowsSound'
      BY <1>0, <1>6 DEF TypeOK, RowsSound, GatewaySettles
    <2> QED BY <1>0, <1>6, <2>1, <2>2, <2>3, <2>4 DEF IInv, GatewaySettles,
                                PaidMeansCharged, AnnouncedIsPaid
  <1> QED BY <1>1, <1>2, <1>3, <1>4, <1>5, <1>6 DEF Pay

\* A callback that is received with ok was for a charge: its request starts sound.
LEMMA ReceiveInv ==
  ASSUME IInv, NEW h \in Handlers, NEW a \in Attempts,
         NEW ok \in BOOLEAN, NEW final \in BOOLEAN,
         ok => charge[a] = "charged",
         Receive(h, a, ok, final),
         UNCHANGED <<pc, charge, rows, invoice, published, errors, crashes>>,
         extra' \in 0 .. MaxExtra
  PROVE  IInv'
  <1> USE PaymentsAssumption DEF rows
  <1>0. TypeOK /\ RowsSound /\ JobsSound /\ PaidMeansCharged /\ AnnouncedIsPaid
    BY DEF IInv
  <1>1. CASE UNCHANGED job
    <2>1. told' \subseteq Attempts
      BY <1>0 DEF Receive, TypeOK
    <2>2. TypeOK'
      BY <1>0, <1>1, <2>1 DEF TypeOK
    <2> QED BY <1>0, <1>1, <2>2 DEF IInv, RowsSound, JobsSound, JobSound, PaidMeansCharged, AnnouncedIsPaid
  <1>2. CASE \E p \in Attempts :
               /\ CallbackRef[a] # NoRef
               /\ FirstPayment(CallbackRef[a], p)
               /\ job' = [job EXCEPT ![h] =
                    [at |-> "payment", callback |-> a, ok |-> ok, final |-> final, row |-> p]]
               /\ UNCHANGED told
    <2>1. PICK p \in Attempts :
               /\ CallbackRef[a] # NoRef
               /\ FirstPayment(CallbackRef[a], p)
               /\ job' = [job EXCEPT ![h] =
                    [at |-> "payment", callback |-> a, ok |-> ok, final |-> final, row |-> p]]
               /\ UNCHANGED told
      BY <1>2
    <2> DEFINE j == [at |-> "payment", callback |-> a, ok |-> ok, final |-> final, row |-> p]
    <2>2. j \in Jobs
      BY DEF Jobs, Stages
    <2>3. job' = [job EXCEPT ![h] = j] /\ job' \in [Handlers -> Jobs \cup {Free}] /\ told' = told
      BY <1>0, <2>1, <2>2 DEF TypeOK
    <2>4. TypeOK'
      BY <1>0, <2>3 DEF TypeOK
    <2>5. ref[p] = CallbackRef[a] /\ status[p] # "none"
      BY <1>0, <2>1 DEF FirstPayment, RowsSound
    <2>6. JobsSound'
      <3> SUFFICES ASSUME NEW g \in Handlers, job'[g] # Free
                   PROVE  JobSound(g)'
        BY DEF JobsSound
      <3>1. CASE g = h
        <4>1. job'[g] = j
          BY <1>0, <2>3, <3>1 DEF TypeOK
        <4> QED BY <2>1, <2>5, <4>1 DEF JobSound
      <3>2. CASE g # h
        <4>1. job'[g] = job[g]
          BY <1>0, <2>3, <3>2 DEF TypeOK
        <4> QED BY <1>0, <4>1 DEF JobsSound, JobSound
      <3> QED BY <3>1, <3>2
    <2> QED BY <1>0, <2>4, <2>6 DEF IInv, RowsSound, PaidMeansCharged, AnnouncedIsPaid
  <1> QED BY <1>1, <1>2 DEF Receive

\* The bound on callbacks is kept.
LEMMA ExtraType ==
  ASSUME extra \in 0 .. MaxExtra, Extra
  PROVE  extra' \in 0 .. MaxExtra
  BY PaymentsAssumption DEF Extra

\* A callback of any kind keeps the invariant.
LEMMA CallbackInv ==
  ASSUME IInv, NEW h \in Handlers, NEW a \in Attempts,
         Notify(h, a) \/ NotifyAgain(h, a) \/ NotifyProgress(h, a)
  PROVE  IInv'
  <1>0. extra \in 0 .. MaxExtra
    BY DEF IInv, TypeOK
  <1> USE PaymentsAssumption
  <1>1. CASE Notify(h, a)
    <2>1. Receive(h, a, charge[a] = "charged", TRUE)
      BY <1>1 DEF Notify
    <2> QED BY <1>0, <1>1, <2>1, ReceiveInv DEF Notify, bounds
  <1>2. CASE NotifyAgain(h, a)
    <2>1. Receive(h, a, charge[a] = "charged", TRUE) /\ extra' \in 0 .. MaxExtra
      BY <1>0, <1>2, ExtraType DEF NotifyAgain
    <2> QED BY <1>2, <2>1, ReceiveInv DEF NotifyAgain
  <1>3. CASE NotifyProgress(h, a)
    <2>1. Receive(h, a, FALSE, FALSE) /\ extra' \in 0 .. MaxExtra
      BY <1>0, <1>3, ExtraType DEF NotifyProgress
    <2> QED BY <1>3, <2>1, ReceiveInv DEF NotifyProgress
  <1> QED BY <1>1, <1>2, <1>3

-----------------------------------------------------------------------------
\* A worker that has ended its request leaves those of the others alone.
LEMMA EndedJobs ==
  ASSUME TypeOK, NEW h \in Handlers, job' = [job EXCEPT ![h] = Free]
  PROVE  /\ job' \in [Handlers -> Jobs \cup {Free}]
         /\ \A g \in Handlers : job'[g] # Free => g # h /\ job'[g] = job[g]
  BY DEF TypeOK

\* The gateway is told of attempts only.
LEMMA AnswerType ==
  ASSUME TypeOK, NEW h \in Handlers, job[h] # Free, Answer(h)
  PROVE  /\ job' = [job EXCEPT ![h] = Free]
         /\ told' \subseteq Attempts
  <1>1. told \subseteq Attempts /\ job[h].callback \in Attempts
    BY BusyIsJob DEF TypeOK
  <1> QED BY <1>1 DEF Answer

\* A worker that goes on to another stage changes nothing else in its job.
LEMMA GoToJobs ==
  ASSUME TypeOK, NEW h \in Handlers, job[h] # Free, NEW s \in Stages, GoTo(h, s)
  PROVE  /\ job' \in [Handlers -> Jobs \cup {Free}]
         /\ told' = told
         /\ job'[h].at = s /\ job'[h].callback = job[h].callback
         /\ job'[h].ok = job[h].ok /\ job'[h].row = job[h].row
         /\ \A g \in Handlers : g # h => job'[g] = job[g]
  <1>1. job[h] \in Jobs
    BY BusyIsJob
  <1>2. [job[h] EXCEPT !.at = s] \in Jobs
    BY <1>1 DEF Jobs
  <1>3. job' = [job EXCEPT ![h] = [job[h] EXCEPT !.at = s]] /\ told' = told
    BY DEF GoTo
  <1>4. job'[h] = [job[h] EXCEPT !.at = s]
    BY <1>3 DEF TypeOK
  <1>5. job' \in [Handlers -> Jobs \cup {Free}]
    BY <1>2, <1>3 DEF TypeOK
  <1> QED BY <1>1, <1>3, <1>4, <1>5 DEF Jobs, TypeOK

\* The jobs of a step that only ends a request or moves it to a stage it may be
\* in remain sound when rows, charges and PAID invoices stay.
LEMMA JobsKept ==
  ASSUME TypeOK, JobsSound, NEW h \in Handlers, job[h] # Free,
         UNCHANGED <<charge, ref>>,
         \A a \in Attempts : status[a] # "none" => status'[a] # "none",
         \A i \in Invoices : invoice[i] = "PAID" => invoice'[i] = "PAID",
         \/ job' = [job EXCEPT ![h] = Free]
         \/ \E s \in Stages \ {"payment"} :
              /\ GoTo(h, s)
              /\ job[h].ok
              /\ s \in {"invalidate", "publish"} => invoice'[InvoiceOf[job[h].row]] = "PAID"
  PROVE  JobsSound'
  <1> SUFFICES ASSUME NEW g \in Handlers, job'[g] # Free
               PROVE  JobSound(g)'
    BY DEF JobsSound
  <1>1. ASSUME job'[g] = job[g] PROVE JobSound(g)'
    <2>1. JobSound(g) /\ job[g].row \in Attempts /\ InvoiceOf[job[g].row] \in Invoices
      BY <1>1, BusyIsJob, PaymentsAssumption DEF JobsSound
    <2> QED BY <1>1, <2>1 DEF JobSound
  <1>2. CASE job' = [job EXCEPT ![h] = Free]
    BY <1>1, <1>2, EndedJobs
  <1>3. CASE \E s \in Stages \ {"payment"} :
              /\ GoTo(h, s)
              /\ job[h].ok
              /\ s \in {"invalidate", "publish"} => invoice'[InvoiceOf[job[h].row]] = "PAID"
    <2>1. PICK s \in Stages \ {"payment"} :
              /\ GoTo(h, s)
              /\ job[h].ok
              /\ s \in {"invalidate", "publish"} => invoice'[InvoiceOf[job[h].row]] = "PAID"
      BY <1>3
    <2>2. /\ job'[h].at = s /\ job'[h].callback = job[h].callback
          /\ job'[h].ok = job[h].ok /\ job'[h].row = job[h].row
          /\ \A f \in Handlers : f # h => job'[f] = job[f]
      BY <2>1, GoToJobs
    <2>3. CASE g = h
      <3>1. JobSound(h) /\ job[h].row \in Attempts
        BY BusyIsJob DEF JobsSound
      <3> QED BY <2>1, <2>2, <2>3, <3>1 DEF JobSound
    <2> QED BY <1>1, <2>2, <2>3
  <1> QED BY <1>2, <1>3

\* Saving the status of the payment.
LEMMA SavePaymentInv ==
  ASSUME IInv, NEW h \in Handlers, SavePayment(h)
  PROVE  IInv'
  <1> USE PaymentsAssumption DEF bounds
  <1>0. TypeOK /\ RowsSound /\ JobsSound /\ PaidMeansCharged /\ AnnouncedIsPaid
    BY DEF IInv
  <1>1. /\ job[h] # Free /\ job[h].row \in Attempts /\ job[h].ok \in BOOLEAN
        /\ UNCHANGED <<pc, charge, ref, created, invoice, published, extra, errors, crashes>>
    BY <1>0, BusyIsJob DEF SavePayment, At
  <1>2. status[job[h].row] # "none"
    BY <1>0, <1>1 DEF JobsSound, JobSound
  <1>3. /\ status' \in [Attempts -> {"none", "PENDING", "SUCCESS", "FAILED"}]
        /\ \A a \in Attempts : status[a] # "none" <=> status'[a] # "none"
    BY <1>0, <1>1, <1>2 DEF SavePayment, TypeOK
  <1>4. job' \in [Handlers -> Jobs \cup {Free}] /\ told' \subseteq Attempts
    <2>1. CASE job[h].ok /\ GoTo(h, "invoice")
      BY <1>0, <1>1, <2>1, GoToJobs DEF Stages, TypeOK
    <2>2. CASE ~job[h].ok /\ Answer(h)
      BY <1>0, <1>1, <2>2, AnswerType, EndedJobs
    <2> QED BY <2>1, <2>2 DEF SavePayment
  <1>5. TypeOK'
    BY <1>0, <1>1, <1>3, <1>4 DEF TypeOK
  <1>6. RowsSound'
    <2>1. \A n \in 1 .. Len(created) : created[n] \in Attempts
      BY <1>0 DEF TypeOK
    <2> QED BY <1>0, <1>1, <1>3, <2>1 DEF RowsSound
  <1>7. JobsSound'
    <2>1. CASE job[h].ok /\ GoTo(h, "invoice")
      BY <1>0, <1>1, <1>3, <2>1, JobsKept DEF Stages
    <2>2. CASE ~job[h].ok /\ Answer(h)
      BY <1>0, <1>1, <1>3, <2>2, JobsKept, AnswerType
    <2> QED BY <2>1, <2>2 DEF SavePayment
  <1> QED BY <1>0, <1>1, <1>5, <1>6, <1>7 DEF IInv, PaidMeansCharged, AnnouncedIsPaid

\* Saving the invoice: the row that was found belongs to the invoice that the
\* reported charge is for.
LEMMA SaveInvoiceInv ==
  ASSUME IInv, NEW h \in Handlers, SaveInvoice(h)
  PROVE  IInv'
  <1> USE PaymentsAssumption DEF bounds, rows
  <1>0. TypeOK /\ RowsSound /\ JobsSound /\ PaidMeansCharged /\ AnnouncedIsPaid
    BY DEF IInv
  <1>1. /\ job[h] # Free /\ job[h].row \in Attempts /\ job[h].callback \in Attempts
        /\ UNCHANGED <<pc, charge, status, ref, created, published, extra, errors, crashes>>
        /\ JobSound(h) /\ job[h].at = "invoice"
    BY <1>0, BusyIsJob DEF SaveInvoice, At, JobsSound
  <1> DEFINE i == InvoiceOf[job[h].row]
  <1>2. i \in Invoices
    BY <1>1
  <1>3. invoice' = [invoice EXCEPT ![i] = "PAID"] /\ GoTo(h, "invalidate")
    BY DEF SaveInvoice
  <1>4. job[h].ok /\ charge[job[h].callback] = "charged"
    BY <1>1 DEF JobSound
  <1>5. InvoiceOf[job[h].callback] = i
    <2>1. ref[job[h].row] = CallbackRef[job[h].callback] /\ CallbackRef[job[h].callback] # NoRef
      BY <1>1 DEF JobSound
    <2>2. ref[job[h].row] = StoredRef[job[h].row]
      BY <1>0, <1>1, <2>1 DEF RowsSound
    <2> QED BY <1>1, <2>1, <2>2, ReferenceAssumption
  <1>6. /\ invoice' \in [Invoices -> {"PENDING", "PAID"}]
        /\ \A k \in Invoices : invoice[k] = "PAID" => invoice'[k] = "PAID"
        /\ invoice'[i] = "PAID"
        /\ \A k \in Invoices : k # i => invoice'[k] = invoice[k]
    BY <1>0, <1>2, <1>3 DEF TypeOK
  <1>7. TypeOK'
    <2>1. job' \in [Handlers -> Jobs \cup {Free}] /\ told' = told
      BY <1>0, <1>1, <1>3, GoToJobs DEF Stages
    <2> QED BY <1>0, <1>1, <1>6, <2>1 DEF TypeOK
  <1>8. JobsSound'
    BY <1>0, <1>1, <1>3, <1>4, <1>6, JobsKept DEF Stages
  <1>9. PaidMeansCharged'
    BY <1>0, <1>1, <1>4, <1>5, <1>6 DEF PaidMeansCharged
  <1>10. AnnouncedIsPaid'
    BY <1>0, <1>1, <1>6 DEF AnnouncedIsPaid, TypeOK
  <1> QED BY <1>0, <1>1, <1>7, <1>8, <1>9, <1>10 DEF IInv, RowsSound

\* The end of a webhook request, with or without an answer.
LEMMA EndInv ==
  ASSUME IInv, NEW h \in Handlers, job[h] # Free,
         job' = [job EXCEPT ![h] = Free], told' \subseteq Attempts,
         UNCHANGED <<pc, charge, rows, invoice, extra>>,
         errors' \in 0 .. MaxErrors, crashes' \in 0 .. MaxCrashes,
         published' \subseteq Attempts, AnnouncedIsPaid'
  PROVE  IInv'
  <1> USE PaymentsAssumption DEF rows
  <1>0. TypeOK /\ RowsSound /\ JobsSound /\ PaidMeansCharged
    BY DEF IInv
  <1>1. TypeOK'
    BY <1>0, EndedJobs DEF TypeOK
  <1>2. JobsSound'
    BY <1>0, JobsKept
  <1> QED BY <1>0, <1>1, <1>2 DEF IInv, RowsSound, PaidMeansCharged

\* Invalidating the caches: on to the publish, or the end.
LEMMA InvalidateInv ==
  ASSUME IInv, NEW h \in Handlers, Invalidate(h)
  PROVE  IInv'
  <1> USE PaymentsAssumption DEF bounds, rows
  <1>0. TypeOK /\ RowsSound /\ JobsSound /\ PaidMeansCharged /\ AnnouncedIsPaid
    BY DEF IInv
  <1>1. /\ job[h] # Free /\ job[h].at = "invalidate" /\ JobSound(h)
        /\ UNCHANGED <<pc, charge, status, ref, created, invoice, published, extra, errors, crashes>>
    BY <1>0 DEF Invalidate, At, JobsSound
  <1>2. CASE GoTo(h, "publish")
    <2>1. TypeOK'
      <3>1. job' \in [Handlers -> Jobs \cup {Free}] /\ told' = told
        BY <1>0, <1>1, <1>2, GoToJobs DEF Stages
      <3> QED BY <1>0, <1>1, <3>1 DEF TypeOK
    <2>2. job[h].ok /\ invoice'[InvoiceOf[job[h].row]] = "PAID"
      BY <1>1 DEF JobSound
    <2>3. JobsSound'
      BY <1>0, <1>1, <1>2, <2>2, JobsKept DEF Stages
    <2> QED BY <1>0, <1>1, <2>1, <2>3 DEF IInv, RowsSound, PaidMeansCharged, AnnouncedIsPaid
  <1>3. CASE Answer(h)
    <2>1. job' = [job EXCEPT ![h] = Free] /\ told' \subseteq Attempts
      BY <1>0, <1>1, <1>3, AnswerType
    <2>2. AnnouncedIsPaid' /\ published' \subseteq Attempts
      BY <1>0, <1>1 DEF AnnouncedIsPaid, TypeOK
    <2>3. errors' \in 0 .. MaxErrors /\ crashes' \in 0 .. MaxCrashes
      BY <1>0, <1>1 DEF TypeOK
    <2> QED BY <1>1, <2>1, <2>2, <2>3, EndInv
  <1> QED BY <1>2, <1>3 DEF Invalidate

\* Publishing the event: the invoice has been PAID since it was saved.
LEMMA PublishInv ==
  ASSUME IInv, NEW h \in Handlers, Publish(h)
  PROVE  IInv'
  <1> USE PaymentsAssumption DEF bounds, rows
  <1>0. TypeOK /\ JobsSound /\ AnnouncedIsPaid
    BY DEF IInv
  <1>1. /\ job[h] # Free /\ job[h].at = "publish" /\ JobSound(h) /\ job[h].row \in Attempts
        /\ UNCHANGED <<pc, charge, status, ref, created, invoice, extra, errors, crashes>>
        /\ published' = published \cup {job[h].row}
    BY <1>0, BusyIsJob DEF Publish, At, JobsSound
  <1>2. job' = [job EXCEPT ![h] = Free] /\ told' \subseteq Attempts
    BY <1>0, <1>1, AnswerType DEF Publish
  <1>3. invoice[InvoiceOf[job[h].row]] = "PAID"
    BY <1>1 DEF JobSound
  <1>4. AnnouncedIsPaid' /\ published' \subseteq Attempts
    BY <1>0, <1>1, <1>3 DEF AnnouncedIsPaid, TypeOK
  <1>5. errors' \in 0 .. MaxErrors /\ crashes' \in 0 .. MaxCrashes
    BY <1>0, <1>1 DEF TypeOK
  <1> QED BY <1>1, <1>2, <1>4, <1>5, EndInv

\* Exceptions and crashes end a webhook request and write nothing.
LEMMA FailureInv ==
  ASSUME IInv, NEW h \in Handlers, HandlerRaises(h) \/ HandlerDies(h)
  PROVE  IInv'
  <1> USE PaymentsAssumption
  <1>0. TypeOK /\ AnnouncedIsPaid
    BY DEF IInv
  <1>1. AnnouncedIsPaid' /\ published' \subseteq Attempts
    BY <1>0 DEF HandlerRaises, HandlerDies, AnnouncedIsPaid, TypeOK
  <1>2. CASE HandlerRaises(h)
    <2>1. job' = [job EXCEPT ![h] = Free] /\ told' \subseteq Attempts
      BY <1>0, <1>2, AnswerType DEF HandlerRaises
    <2>2. errors' \in 0 .. MaxErrors /\ crashes' \in 0 .. MaxCrashes
      BY <1>0, <1>2 DEF HandlerRaises, Error, TypeOK
    <2> QED BY <1>1, <1>2, <2>1, <2>2, EndInv DEF HandlerRaises
  <1>3. CASE HandlerDies(h)
    <2>1. told' \subseteq Attempts
      BY <1>0, <1>3 DEF HandlerDies, TypeOK
    <2>2. errors' \in 0 .. MaxErrors /\ crashes' \in 0 .. MaxCrashes
      BY <1>0, <1>3 DEF HandlerDies, Crash, TypeOK
    <2> QED BY <1>1, <1>3, <2>1, <2>2, EndInv DEF HandlerDies
  <1> QED BY <1>2, <1>3

\* Every step keeps the invariant.
LEMMA NextInv == IInv /\ [Next]_vars => IInv'
  <1> SUFFICES ASSUME IInv, [Next]_vars PROVE IInv'
    OBVIOUS
  <1>1. CASE UNCHANGED vars
    <2>1. TypeOK'
      BY <1>1 DEF IInv, TypeOK, vars
    <2> QED BY <1>1, <2>1 DEF IInv, RowsSound, JobsSound, JobSound, PaidMeansCharged, AnnouncedIsPaid, vars
  <1>2. ASSUME NEW a \in Attempts, Pay(a) \/ PayDies(a) \/ GatewaySettles(a) PROVE IInv'
    BY <1>2, PayInv
  <1>3. ASSUME NEW h \in Handlers, NEW a \in Attempts,
               Notify(h, a) \/ NotifyAgain(h, a) \/ NotifyProgress(h, a)
        PROVE  IInv'
    BY <1>3, CallbackInv
  <1>4. ASSUME NEW h \in Handlers, Handle(h) \/ HandlerRaises(h) \/ HandlerDies(h) PROVE IInv'
    BY <1>4, SavePaymentInv, SaveInvoiceInv, InvalidateInv, PublishInv, FailureInv DEF Handle
  <1> QED BY <1>1, <1>2, <1>3, <1>4 DEF Next

\* Rows, jobs, invoices and announcements agree with each other and with the
\* gateway in every reachable state.
THEOREM InductiveInvariant == Spec => []IInv
  BY InitInv, NextInv, PTL DEF Spec

\* Every variable keeps its type, and rows belong to finished pay requests.
THEOREM TypeCorrect == Spec => []TypeOK
  <1>1. IInv => TypeOK
    BY DEF IInv
  <1> QED BY <1>1, InductiveInvariant, PTL

\* An invoice is PAID only if some attempt to pay it was charged.
THEOREM PaidInvoicesWereCharged == Spec => []PaidMeansCharged
  <1>1. IInv => PaidMeansCharged
    BY DEF IInv
  <1> QED BY <1>1, InductiveInvariant, PTL

\* payment.received is published for payments of PAID invoices only.
THEOREM AnnouncementsAreTrue == Spec => []AnnouncedIsPaid
  <1>1. IInv => AnnouncedIsPaid
    BY DEF IInv
  <1> QED BY <1>1, InductiveInvariant, PTL

-----------------------------------------------------------------------------
(* What ChargedBecomesPaid rests on: an answer is never given too early.   *)

\* A request that reports an outcome reports what the gateway has made of the
\* charge.
OutcomesReported ==
  \A h \in Handlers : job[h] # Free /\ job[h].final =>
    /\ Outcome(job[h].callback)
    /\ job[h].ok <=> charge[job[h].callback] = "charged"

\* A gateway that gets its answer for a charge, and whose callback found a row,
\* can stop reporting: the invoice is PAID, unless an exception was swallowed.
AnsweredOncePaid ==
  \A a \in Attempts :
    a \in told' \ told /\ charge[a] = "charged" /\ Known(a) /\ errors' = errors
      => invoice'[InvoiceOf[a]] = "PAID"

\* An outcome is final, since a charge is asked for once.
LEMMA OutcomeStays ==
  ASSUME IInv, [Next]_vars, NEW a \in Attempts, Outcome(a)
  PROVE  charge'[a] = charge[a]
  <1>0. TypeOK /\ RowsSound
    BY DEF IInv
  <1>1. ASSUME NEW b \in Attempts, InitiatePayment(b)
        PROVE  charge'[a] = charge[a]
    <2>1. charge[b] = "none" /\ charge' = [charge EXCEPT ![b] = "asked"]
      BY <1>0, <1>1 DEF InitiatePayment, RowsSound
    <2>2. a # b
      BY <2>1 DEF Outcome
    <2> QED BY <1>0, <2>1, <2>2 DEF TypeOK
  <1>2. ASSUME NEW b \in Attempts, GatewaySettles(b)
        PROVE  charge'[a] = charge[a]
    <2>1. charge[b] = "asked"
      BY <1>2 DEF GatewaySettles
    <2>2. a # b
      BY <2>1 DEF Outcome
    <2> QED BY <1>0, <1>2, <2>2 DEF TypeOK, GatewaySettles
  <1>3. ASSUME NEW b \in Attempts,
               CheckInvoice(b) \/ InitiateFails(b) \/ CreatePayment(b) \/ PayDies(b)
        PROVE  charge' = charge
    BY <1>3 DEF CheckInvoice, InitiateFails, CreatePayment, PayDies
  <1>4. ASSUME NEW h \in Handlers, NEW b \in Attempts,
               Notify(h, b) \/ NotifyAgain(h, b) \/ NotifyProgress(h, b)
        PROVE  charge' = charge
    BY <1>4 DEF Notify, NotifyAgain, NotifyProgress
  <1>5. ASSUME NEW h \in Handlers, Handle(h) \/ HandlerRaises(h) \/ HandlerDies(h)
        PROVE  charge' = charge
    BY <1>5 DEF Handle, SavePayment, SaveInvoice, Invalidate, Publish, HandlerRaises, HandlerDies
  <1>6. CASE UNCHANGED vars
    BY <1>6 DEF vars
  <1> QED BY <1>1, <1>2, <1>3, <1>4, <1>5, <1>6 DEF Next, Pay

\* What a step does to the request of one worker: nothing, it ends it or moves
\* it on, or begins one for a callback that tells the truth.
LEMMA JobSteps ==
  ASSUME IInv, [Next]_vars, NEW h \in Handlers, job'[h] # Free, job'[h] # job[h]
  PROVE  \/ /\ job[h] # Free /\ job'[h].callback = job[h].callback
            /\ job'[h].ok = job[h].ok /\ job'[h].final = job[h].final
         \/ /\ Outcome(job'[h].callback) /\ job'[h].callback \in Attempts
            /\ job'[h].ok <=> charge[job'[h].callback] = "charged"
         \/ ~job'[h].final
  <1>0. TypeOK
    BY DEF IInv
  <1>1. ASSUME NEW a \in Attempts, Pay(a) \/ PayDies(a) \/ GatewaySettles(a)
        PROVE  job' = job
    BY <1>1 DEF Pay, CheckInvoice, InitiatePayment, InitiateFails, CreatePayment, PayDies,
                GatewaySettles
  <1>2. ASSUME NEW g \in Handlers, NEW a \in Attempts, NEW ok, NEW final,
               Receive(g, a, ok, final)
        PROVE  job'[h].callback = a /\ job'[h].ok = ok /\ job'[h].final = final
    <2>1. job' # job
      OBVIOUS
    <2>2. PICK p \in Attempts :
             job' = [job EXCEPT ![g] =
               [at |-> "payment", callback |-> a, ok |-> ok, final |-> final, row |-> p]]
      BY <1>2, <2>1 DEF Receive
    <2>3. g = h
      BY <1>0, <2>2 DEF TypeOK
    <2>4. job'[h] = [at |-> "payment", callback |-> a, ok |-> ok, final |-> final, row |-> p]
      BY <1>0, <2>2, <2>3 DEF TypeOK
    <2> QED BY <2>4
  <1>3. ASSUME NEW g \in Handlers, NEW a \in Attempts, Notify(g, a) \/ NotifyAgain(g, a)
        PROVE  /\ Outcome(job'[h].callback) /\ job'[h].callback \in Attempts
               /\ job'[h].ok <=> charge[job'[h].callback] = "charged"
    <2>1. Outcome(a) /\ Receive(g, a, charge[a] = "charged", TRUE)
      BY <1>3 DEF Notify, NotifyAgain
    <2>2. job'[h].callback = a /\ job'[h].ok = (charge[a] = "charged")
      BY <1>2, <2>1
    <2>3. job'[h].ok <=> charge[a] = "charged"
      BY <2>2, Zenon
    <2> QED BY <2>1, <2>2, <2>3
  <1>4. ASSUME NEW g \in Handlers, NEW a \in Attempts, NotifyProgress(g, a)
        PROVE  ~job'[h].final
    <2>1. Receive(g, a, FALSE, FALSE)
      BY <1>4 DEF NotifyProgress
    <2> QED BY <1>2, <2>1
  <1>5. ASSUME NEW g \in Handlers, NEW s \in Stages, GoTo(g, s)
        PROVE  /\ job'[h].callback = job[h].callback
               /\ job'[h].ok = job[h].ok /\ job'[h].final = job[h].final
    <2>1. job' = [job EXCEPT ![g] = [job[g] EXCEPT !.at = s]]
      BY <1>5 DEF GoTo
    <2>2. g = h
      BY <1>0, <2>1 DEF TypeOK
    <2>3. job'[h] = [job[h] EXCEPT !.at = s]
      BY <1>0, <2>1, <2>2 DEF TypeOK
    <2> QED BY <2>3
  <1>6. ASSUME NEW g \in Handlers, job' = [job EXCEPT ![g] = Free]
        PROVE  FALSE
    BY <1>0, <1>6, EndedJobs
  <1>7. ASSUME NEW g \in Handlers, Handle(g) \/ HandlerRaises(g) \/ HandlerDies(g)
        PROVE  /\ job[h] # Free /\ job'[h].callback = job[h].callback
               /\ job'[h].ok = job[h].ok /\ job'[h].final = job[h].final
    <2>1. job[g] # Free
      BY <1>7 DEF Handle, SavePayment, SaveInvoice, Invalidate, Publish, HandlerRaises,
                  HandlerDies, At
    <2>2. \/ \E s \in Stages : GoTo(g, s)
          \/ job' = [job EXCEPT ![g] = Free]
      BY <1>7 DEF Handle, SavePayment, SaveInvoice, Invalidate, Publish, HandlerRaises,
                  HandlerDies, Answer, Stages
    <2>3. PICK s \in Stages : GoTo(g, s)
      BY <1>6, <2>2
    <2>4. g = h
      BY <1>0, <2>1, <2>3, GoToJobs
    <2> QED BY <1>5, <2>1, <2>3, <2>4
  <1>8. CASE UNCHANGED vars
    BY <1>8 DEF vars
  <1> QED BY <1>1, <1>3, <1>4, <1>7, <1>8 DEF Next

LEMMA OutcomesStep ==
  ASSUME IInv, OutcomesReported, [Next]_vars
  PROVE  OutcomesReported'
  <1> SUFFICES ASSUME NEW h \in Handlers, job'[h] # Free, job'[h].final
               PROVE  /\ charge'[job'[h].callback] \in {"charged", "declined"}
                      /\ job'[h].ok <=> charge'[job'[h].callback] = "charged"
    BY DEF OutcomesReported, Outcome
  <1>1. /\ job'[h].callback \in Attempts /\ Outcome(job'[h].callback)
        /\ job'[h].ok <=> charge[job'[h].callback] = "charged"
    <2>1. CASE job'[h] = job[h]
      <3>1. job[h].callback \in Attempts
        BY <2>1, BusyIsJob DEF IInv
      <3> QED BY <2>1, <3>1 DEF OutcomesReported
    <2>2. CASE /\ job[h] # Free /\ job'[h].callback = job[h].callback
               /\ job'[h].ok = job[h].ok /\ job'[h].final = job[h].final
      <3>1. job[h].callback \in Attempts
        BY <2>2, BusyIsJob DEF IInv
      <3> QED BY <2>2, <3>1 DEF OutcomesReported
    <2> QED BY <2>1, <2>2, JobSteps
  <1>2. charge'[job'[h].callback] = charge[job'[h].callback]
    BY <1>1, OutcomeStays
  <1> QED BY <1>1, <1>2 DEF Outcome

\* A step that tells the gateway of a charge leaves the invoice PAID.
LEMMA AnswerStep ==
  ASSUME IInv, OutcomesReported, [Next]_vars
  PROVE  AnsweredOncePaid
  <1> SUFFICES ASSUME NEW a \in Attempts, a \in told' \ told, charge[a] = "charged",
                      Known(a), errors' = errors
               PROVE  invoice'[InvoiceOf[a]] = "PAID"
    BY DEF AnsweredOncePaid
  <1>0. TypeOK /\ RowsSound /\ JobsSound
    BY DEF IInv
  <1>1. told' # told
    OBVIOUS
  <1>2. ASSUME NEW h \in Handlers, job[h] # Free, Answer(h),
               job[h].at \in {"invalidate", "publish"} \/ ~job[h].ok,
               invoice' = invoice
        PROVE  invoice'[InvoiceOf[a]] = "PAID"
    <2>1. job[h].final /\ job[h].callback = a
      BY <1>2 DEF Answer
    <2>2. job[h].ok
      BY <1>2, <2>1 DEF OutcomesReported
    <2>3. /\ CallbackRef[a] # NoRef /\ ref[job[h].row] = CallbackRef[a]
          /\ invoice[InvoiceOf[job[h].row]] = "PAID" /\ job[h].row \in Attempts
      BY <1>0, <1>2, <2>1, <2>2, BusyIsJob DEF JobsSound, JobSound
    <2>4. ref[job[h].row] = StoredRef[job[h].row]
      BY <1>0, <2>3 DEF RowsSound
    <2>5. InvoiceOf[job[h].row] = InvoiceOf[a]
      BY <2>3, <2>4, ReferenceAssumption
    <2> QED BY <1>2, <2>3, <2>5
  <1>3. ASSUME NEW h \in Handlers, NEW b \in Attempts,
               Notify(h, b) \/ NotifyAgain(h, b) \/ NotifyProgress(h, b)
        PROVE  FALSE
    <2>1. PICK ok, final : Receive(h, b, ok, final)
      BY <1>3 DEF Notify, NotifyAgain, NotifyProgress
    <2>2. told' \subseteq told \cup {b} /\ ~Known(b)
      BY <1>1, <2>1 DEF Receive, Known
    <2> QED BY <2>2
  <1>4. ASSUME NEW h \in Handlers, SavePayment(h)
        PROVE  invoice'[InvoiceOf[a]] = "PAID"
    <2>1. /\ job[h] # Free /\ invoice' = invoice /\ Answer(h) /\ ~job[h].ok
      BY <1>1, <1>4 DEF SavePayment, GoTo, At
    <2> QED BY <1>2, <2>1
  <1>5. ASSUME NEW h \in Handlers, Invalidate(h) \/ Publish(h)
        PROVE  invoice'[InvoiceOf[a]] = "PAID"
    <2>1. /\ job[h] # Free /\ invoice' = invoice /\ Answer(h)
          /\ job[h].at \in {"invalidate", "publish"}
      BY <1>1, <1>5 DEF Invalidate, Publish, GoTo, At
    <2> QED BY <1>2, <2>1
  <1>6. ASSUME NEW h \in Handlers, HandlerRaises(h)
        PROVE  invoice'[InvoiceOf[a]] = "PAID"
    <2>1. ~Error
      BY <1>0 DEF Error, TypeOK
    <2>2. /\ job[h] # Free /\ invoice' = invoice /\ Answer(h) /\ job[h].at = "invalidate"
      BY <1>6, <2>1 DEF HandlerRaises, At
    <2> QED BY <1>2, <2>2
  <1>7. ASSUME NEW b \in Attempts, Pay(b) \/ PayDies(b) \/ GatewaySettles(b)
        PROVE  told' = told
    BY <1>7 DEF Pay, CheckInvoice, InitiatePayment, InitiateFails, CreatePayment, PayDies,
                GatewaySettles
  <1>8. ASSUME NEW h \in Handlers, SaveInvoice(h) \/ HandlerDies(h)
        PROVE  told' = told
    BY <1>8 DEF SaveInvoice, GoTo, HandlerDies
  <1>9. CASE UNCHANGED vars
    BY <1>9 DEF vars
  <1> QED BY <1>1, <1>3, <1>4, <1>5, <1>6, <1>7, <1>8, <1>9 DEF Next, Handle

\* A gateway is answered for a charge only when the invoice is PAID: whatever
\* requests race or die, the report that can still do it is not given up.
THEOREM AnswersAreNotEarly == Spec => [][AnsweredOncePaid]_vars
  <1>1. Init => OutcomesReported
    BY DEF Init, OutcomesReported
  <1>2. IInv /\ OutcomesReported /\ [Next]_vars => OutcomesReported'
    BY OutcomesStep
  <1>3. IInv /\ OutcomesReported /\ [Next]_vars => [AnsweredOncePaid]_vars
    BY AnswerStep
  <1> QED BY <1>1, <1>2, <1>3, InductiveInvariant, PTL DEF Spec

=============================================================================
