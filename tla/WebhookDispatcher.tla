------------------------- MODULE WebhookDispatcher -------------------------
(***************************************************************************)
(* The webhook dispatcher (services/webhook-dispatcher).                   *)
(*                                                                         *)
(* ProcessEvent looks up the registrations of an event and Deliver starts  *)
(* one goroutine per active registration, each running deliverOne: find or *)
(* create the breaker of the URL, ask it once, then post the payload under *)
(* Backoffer.Do.  The goroutines of every event in progress interleave;    *)
(* what they share is the map of breakers and the breakers themselves.     *)
(*                                                                         *)
(* A delivery is a pair <<event, registration>>.  Breakers are objects: a  *)
(* breaker is named by the delivery that allocated it, so that two         *)
(* goroutines that both miss the map can be seen to allocate two.          *)
(***************************************************************************)
EXTENDS CircuitBreaker, Sequences

CONSTANTS
  Events,       \* the Kafka records handed to ProcessEvent
  Regs,         \* the webhook registrations of the store
  URLs,         \* the endpoints
  Types,        \* event type names
  AnyType,      \* the wildcard "*" a registration may subscribe to
  EventType,    \* deriveEventType of each record's topic
  Subscribed,   \* reg.Events
  Url,          \* reg.URL
  Active,       \* the registrations with reg.Active
  Malformed,    \* the records whose raw data json.Marshal refuses
  Unroutable,   \* the URLs http.NewRequest refuses
  Schedule,     \* the backoff schedule, in ticks
  NoBreaker

MaxRetries == Len(Schedule)

Deliveries == Events \X Regs

ASSUME DispatcherAssumption ==
  /\ EventType \in [Events -> Types]
  /\ Subscribed \in [Regs -> SUBSET (Types \cup {AnyType})]
  /\ Url \in [Regs -> URLs]
  /\ Active \subseteq Regs
  /\ Malformed \subseteq Events
  /\ Unroutable \subseteq URLs
  /\ Schedule \in Seq(Nat)
  /\ Len(Schedule) > 0
  /\ NoBreaker \notin Deliveries

VARIABLES
  stage,      \* per event: waiting, in ProcessEvent, or returned from it
  pc,         \* per delivery: where deliverOne stands, or how it ended
  ref,        \* per delivery: its local variable breaker
  attempt,    \* per delivery: the loop counter of Backoffer.Do
  wait,       \* per delivery: what is left of time.After
  breakers,   \* Dispatcher.breakers, a map from URL to breaker
  heap,       \* the breaker objects
  failRun,    \* history: per URL, failures recorded since the last success
  okRun,      \* history: per URL, successes recorded since the last failure
  quiet       \* history: per URL, time since the last recorded failure

history == <<failRun, okRun, quiet>>
vars == <<stage, pc, ref, attempt, wait, breakers, heap, failRun, okRun, quiet>>

Settled == {"idle", "skipped", "malformed", "accepted", "refused", "exhausted"}
Running == {"lookup", "create", "admit", "ready", "inflight", "backoff"}

EventOf(d) == d[1]
UrlOf(d) == Url[d[2]]

-----------------------------------------------------------------------------
matchesEvent(subscribed, event) == event \in subscribed \/ AnyType \in subscribed

GetByEvent(event) == {r \in Regs : matchesEvent(Subscribed[r], event)}

\* The registrations Deliver starts a goroutine for.
Targets(e) == GetByEvent(EventType[e]) \cap Active

\* Delay: the pause before attempt n (counted from 0).  The exponential branch
\* is not reached: Do stops at MaxRetries, the length of the schedule.
Delay(n) == Schedule[n + 1]

Init ==
  /\ stage = [e \in Events |-> "queued"]
  /\ pc = [d \in Deliveries |-> "idle"]
  /\ ref = [d \in Deliveries |-> NoBreaker]
  /\ attempt = [d \in Deliveries |-> 0]
  /\ wait = [d \in Deliveries |-> 0]
  /\ breakers = [u \in URLs |-> NoBreaker]
  /\ heap = [d \in Deliveries |-> NewCircuitBreaker]
  /\ failRun = [u \in URLs |-> 0]
  /\ okRun = [u \in URLs |-> 0]
  /\ quiet = [u \in URLs |-> Expired]

\* ProcessEvent up to wg.Wait: with no registration it returns at once.
ProcessEvent(e) ==
  /\ stage[e] = "queued"
  /\ stage' = [stage EXCEPT ![e] = IF GetByEvent(EventType[e]) = {} THEN "returned" ELSE "running"]
  /\ pc' = [d \in Deliveries |->
              IF EventOf(d) = e /\ d[2] \in Targets(e) THEN "lookup" ELSE pc[d]]
  /\ UNCHANGED <<ref, attempt, wait, breakers, heap, history>>

\* wg.Wait is over: every goroutine of the event has returned.
DeliverReturns(e) ==
  /\ stage[e] = "running"
  /\ \A r \in Regs : pc[<<e, r>>] \in Settled
  /\ stage' = [stage EXCEPT ![e] = "returned"]
  /\ UNCHANGED <<pc, ref, attempt, wait, breakers, heap, history>>

\* deliverOne of d is over, as outcome: its local variables are gone.
Settle(d, outcome) ==
  /\ pc' = [pc EXCEPT ![d] = outcome]
  /\ ref' = [ref EXCEPT ![d] = NoBreaker]
  /\ attempt' = [attempt EXCEPT ![d] = 0]
  /\ wait' = [wait EXCEPT ![d] = 0]

-----------------------------------------------------------------------------
\* getBreaker under the read lock.
LookupBreaker(d) ==
  /\ pc[d] = "lookup"
  /\ ref' = [ref EXCEPT ![d] = breakers[UrlOf(d)]]
  /\ pc' = [pc EXCEPT ![d] = IF breakers[UrlOf(d)] = NoBreaker THEN "create" ELSE "admit"]
  /\ UNCHANGED <<stage, attempt, wait, breakers, heap, history>>

\* Mutant: the map is not looked at again under the write lock.
CreateBreakerUnchecked(d) ==
  /\ pc[d] = "create"
  /\ pc' = [pc EXCEPT ![d] = "admit"]
  /\ ref' = [ref EXCEPT ![d] = d]
  /\ breakers' = [breakers EXCEPT ![UrlOf(d)] = d]
  /\ heap' = [heap EXCEPT ![d] = NewCircuitBreaker]
  /\ UNCHANGED <<stage, attempt, wait, history>>

\* getBreaker under the write lock: look again, then allocate.
CreateBreaker(d) ==
  /\ pc[d] = "create"
  /\ pc' = [pc EXCEPT ![d] = "admit"]
  /\ \/ /\ breakers[UrlOf(d)] # NoBreaker
        /\ ref' = [ref EXCEPT ![d] = breakers[UrlOf(d)]]
        /\ UNCHANGED <<breakers, heap>>
     \/ /\ breakers[UrlOf(d)] = NoBreaker
        /\ ref' = [ref EXCEPT ![d] = d]
        /\ breakers' = [breakers EXCEPT ![UrlOf(d)] = d]
        /\ heap' = [heap EXCEPT ![d] = NewCircuitBreaker]
  /\ UNCHANGED <<stage, attempt, wait, history>>

\* The only call of Allow, then json.Marshal; Do starts with attempt 0.
Admit(d) ==
  LET answer == Allow(heap[ref[d]])
  IN  /\ pc[d] = "admit"
      /\ heap' = [heap EXCEPT ![ref[d]] = answer.cb]
      /\ \/ ~answer.ok /\ Settle(d, "skipped")
         \/ answer.ok /\ EventOf(d) \in Malformed /\ Settle(d, "malformed")
         \/ /\ answer.ok /\ EventOf(d) \notin Malformed
            /\ pc' = [pc EXCEPT ![d] = "ready"]
            /\ UNCHANGED <<ref, attempt, wait>>
      /\ UNCHANGED <<stage, breakers, history>>

-----------------------------------------------------------------------------
\* Mutant: the loop counter does not advance.
RetryUncounted(d) ==
  /\ pc' = [pc EXCEPT ![d] = "backoff"]
  /\ wait' = [wait EXCEPT ![d] = Delay(attempt[d])]
  /\ UNCHANGED <<ref, attempt>>

\* What Do does after fn returned an error: wait for the next attempt or give up.
Retry(d) ==
  LET n == attempt[d] + 1
  IN  \/ /\ n < MaxRetries
         /\ pc' = [pc EXCEPT ![d] = "backoff"]
         /\ attempt' = [attempt EXCEPT ![d] = n]
         /\ wait' = [wait EXCEPT ![d] = Delay(n)]
         /\ UNCHANGED ref
      \/ n >= MaxRetries /\ Settle(d, "exhausted")

\* client.Do sends the request.
SendPost(d) ==
  /\ pc[d] = "ready"
  /\ UrlOf(d) \notin Unroutable
  /\ pc' = [pc EXCEPT ![d] = "inflight"]
  /\ UNCHANGED <<stage, ref, attempt, wait, breakers, heap, history>>

\* http.NewRequest fails: an error for Do, and nothing for the breaker.
CreateRequestFails(d) ==
  /\ pc[d] = "ready"
  /\ UrlOf(d) \in Unroutable
  /\ Retry(d)
  /\ UNCHANGED <<stage, breakers, heap, history>>

\* A transport error, the client's timeout, or a status of 500 and above.
PostFails(d) ==
  /\ pc[d] = "inflight"
  /\ heap' = [heap EXCEPT ![ref[d]] = RecordFailure(@)]
  /\ failRun' = [failRun EXCEPT ![UrlOf(d)] = @ + 1]
  /\ okRun' = [okRun EXCEPT ![UrlOf(d)] = 0]
  /\ quiet' = [quiet EXCEPT ![UrlOf(d)] = 0]
  /\ Retry(d)
  /\ UNCHANGED <<stage, breakers>>

\* A status of 400 to 499 ends the delivery and is not recorded.
PostRefused(d) ==
  /\ pc[d] = "inflight"
  /\ Settle(d, "refused")
  /\ UNCHANGED <<stage, breakers, heap, history>>

PostSucceeds(d) ==
  /\ pc[d] = "inflight"
  /\ heap' = [heap EXCEPT ![ref[d]] = RecordSuccess(@)]
  /\ failRun' = [failRun EXCEPT ![UrlOf(d)] = 0]
  /\ okRun' = [okRun EXCEPT ![UrlOf(d)] = @ + 1]
  /\ Settle(d, "accepted")
  /\ UNCHANGED <<stage, breakers, quiet>>

\* time.After fires; the next attempt does not ask the breaker.
Wake(d) ==
  /\ pc[d] = "backoff"
  /\ wait[d] = 0
  /\ pc' = [pc EXCEPT ![d] = "ready"]
  /\ UNCHANGED <<stage, ref, attempt, wait, breakers, heap, history>>

\* Time passes for every timer and every time stamp.
Tick ==
  /\ wait' = [d \in Deliveries |-> IF wait[d] > 0 THEN wait[d] - 1 ELSE 0]
  /\ heap' = [d \in Deliveries |-> Aged(heap[d])]
  /\ quiet' = [u \in URLs |-> Later(quiet[u])]
  /\ UNCHANGED <<stage, pc, ref, attempt, breakers, failRun, okRun>>

Step(d) ==
  \/ LookupBreaker(d) \/ CreateBreaker(d) \/ Admit(d)
  \/ SendPost(d) \/ CreateRequestFails(d)
  \/ PostFails(d) \/ PostRefused(d) \/ PostSucceeds(d)
  \/ Wake(d)

Next ==
  \/ \E e \in Events : ProcessEvent(e) \/ DeliverReturns(e)
  \/ \E d \in Deliveries : Step(d)
  \/ Tick

\* The Go scheduler runs every goroutine that can run, a request ends (the
\* client has a timeout of 30s) and time goes on.
Fairness ==
  /\ \A e \in Events : WF_vars(DeliverReturns(e))
  /\ \A d \in Deliveries : WF_vars(Step(d))
  /\ WF_vars(Tick)

Spec == Init /\ [][Next]_vars /\ Fairness

-----------------------------------------------------------------------------
\* Counters, references and waits stay within their types; a breaker's counters
\* never run below zero.
TypeOK ==
  /\ stage \in [Events -> {"queued", "running", "returned"}]
  /\ pc \in [Deliveries -> Settled \cup Running]
  /\ ref \in [Deliveries -> Deliveries \cup {NoBreaker}]
  /\ attempt \in [Deliveries -> 0 .. MaxRetries]
  /\ wait \in [Deliveries -> Nat]
  /\ breakers \in [URLs -> Deliveries \cup {NoBreaker}]
  /\ heap \in [Deliveries -> Breaker]
  /\ failRun \in [URLs -> Nat]
  /\ okRun \in [URLs -> Nat]
  /\ quiet \in [URLs -> Elapsed]

\* The deliveries that hold a breaker.
Holding == {"admit", "ready", "inflight", "backoff"}

\* Every delivery in progress uses the one breaker its URL has in the map,
\* whatever goroutines raced in getBreaker to create it.
SharedBreaker ==
  \A d \in Deliveries :
    pc[d] \in Holding => ref[d] = breakers[UrlOf(d)] /\ ref[d] # NoBreaker

\* The circuit of an endpoint whose last FailureThresh answers, over all
\* deliveries to it, were failures is not closed.
FailingIsNotClosed ==
  \A u \in URLs :
    failRun[u] >= FailureThresh => breakers[u] # NoBreaker /\ heap[breakers[u]].state # "closed"

StateOf(u) == IF breakers[u] = NoBreaker THEN "closed" ELSE heap[breakers[u]].state

\* An open circuit lets a probe through only when no failure of the endpoint,
\* by any delivery, was recorded for longer than openTimeout.
ProbeOnlyWhenQuiet ==
  [][\A u \in URLs :
       StateOf(u) = "open" /\ StateOf(u)' = "half-open" => quiet[u] > OpenTimeout]_vars

\* A circuit closes again only after SuccessThresh successes with no failure
\* recorded in between, also when half-open periods were cut short before.
ClosesAfterSuccesses ==
  [][\A u \in URLs :
       StateOf(u) # "closed" /\ StateOf(u)' = "closed" => okRun'[u] >= SuccessThresh]_vars

\* A delivery is dropped for an open circuit only if the endpoint failed within
\* the last openTimeout.
SkippedOnlyAfterFailure ==
  [][\A d \in Deliveries :
       pc[d] # "skipped" /\ pc'[d] = "skipped" => quiet[UrlOf(d)] <= OpenTimeout]_vars

\* ProcessEvent returns for every event it was given: no delivery waits on
\* another, and the retries of a delivery end.
EventsReturn == \A e \in Events : stage[e] = "running" ~> stage[e] = "returned"

\* breaker.go:31-33: when an endpoint fails repeatedly "the circuit opens and
\* requests are rejected immediately".  No retry goes ahead on an open circuit.
NoRetryWhileOpen ==
  [][\A d \in Deliveries :
       pc[d] = "backoff" /\ pc'[d] = "ready" => heap[ref[d]].state # "open"]_vars

=============================================================================
