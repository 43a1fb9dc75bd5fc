---------------------- MODULE WebhookDispatcherProofs ----------------------
(***************************************************************************)
(* Theorems about WebhookDispatcher, for every set of events, URLs and     *)
(* registrations, every schedule and every threshold.                      *)
(***************************************************************************)
EXTENDS WebhookDispatcher, TLAPS

USE BreakerAssumption

\* Two URLs never share a breaker: the breaker of a URL was allocated by a
\* delivery to that URL.
OwnBreaker ==
  \A u \in URLs : breakers[u] # NoBreaker => UrlOf(breakers[u]) = u

\* What a breaker of the map knows about the recorded answers of its URL.
TracksHistory(u) ==
  LET b == heap[breakers[u]]
  IN  /\ b.failureCount = failRun[u]
      /\ b.sinceFailure = quiet[u]
      /\ b.state = "closed" => b.failureCount < FailureThresh
      /\ b.state = "half-open" => b.successCount <= okRun[u]

\* Every breaker of the map tracks its URL, and no answer of a URL without a
\* breaker was ever recorded.
Tracking ==
  \A u \in URLs : IF breakers[u] = NoBreaker
                  THEN failRun[u] = 0 /\ quiet[u] = Expired
                  ELSE TracksHistory(u)

IInv == TypeOK /\ SharedBreaker /\ OwnBreaker /\ Tracking

-----------------------------------------------------------------------------
(* What the methods of the breaker do.                                     *)

\* A new circuit breaker is a breaker.
LEMMA NewBreakerType == NewCircuitBreaker \in Breaker
  BY DEF NewCircuitBreaker, Breaker, State, Elapsed, Expired

\* Elapsed times stay within their bounds.
LEMMA LaterType == ASSUME NEW t \in Elapsed PROVE Later(t) \in Elapsed
  BY DEF Later, Elapsed, Expired

\* Allow answers no only on an open circuit within its timeout, and changes
\* nothing but the state and, with it, the success count.
LEMMA AllowFacts ==
  ASSUME NEW b \in Breaker
  PROVE  /\ Allow(b).ok \in BOOLEAN
         /\ Allow(b).cb \in Breaker
         /\ Allow(b).cb.failureCount = b.failureCount
         /\ Allow(b).cb.sinceFailure = b.sinceFailure
         /\ ~Allow(b).ok => b.state = "open" /\ b.sinceFailure <= OpenTimeout
         /\ \/ Allow(b).cb = b
            \/ /\ b.state = "open" /\ b.sinceFailure > OpenTimeout
               /\ Allow(b).cb.state = "half-open"
               /\ Allow(b).cb.successCount = 0
  <1>1. CASE b.state = "open" /\ b.sinceFailure > OpenTimeout
    BY <1>1 DEF Allow, Breaker, State, Elapsed
  <1>2. CASE b.state = "open" /\ ~(b.sinceFailure > OpenTimeout)
    BY <1>2 DEF Allow, Breaker, State, Elapsed
  <1>3. CASE b.state # "open"
    BY <1>3 DEF Allow, Breaker, State, Elapsed
  <1> QED BY <1>1, <1>2, <1>3

\* RecordSuccess forgets the failures, and closes the circuit only from half-open
\* with the last of the successes it needs.
LEMMA RecordSuccessFacts ==
  ASSUME NEW b \in Breaker
  PROVE  /\ RecordSuccess(b) \in Breaker
         /\ RecordSuccess(b).failureCount = 0
         /\ RecordSuccess(b).sinceFailure = b.sinceFailure
         /\ RecordSuccess(b).state = "half-open" =>
              b.state = "half-open" /\ RecordSuccess(b).successCount = b.successCount + 1
         /\ b.state # "closed" /\ RecordSuccess(b).state = "closed" =>
              b.state = "half-open" /\ b.successCount + 1 >= SuccessThresh
         /\ RecordSuccess(b).state = "half-open" \/ RecordSuccess(b).state = b.state
              \/ RecordSuccess(b).state = "closed"
  <1>1. CASE b.state # "half-open"
    BY <1>1 DEF RecordSuccess, Breaker, State
  <1>2. CASE b.state = "half-open" /\ b.successCount + 1 >= SuccessThresh
    BY <1>2 DEF RecordSuccess, Breaker, State
  <1>3. CASE b.state = "half-open" /\ ~(b.successCount + 1 >= SuccessThresh)
    <2> DEFINE n == b.successCount + 1
    <2>1. RecordSuccess(b) = [b EXCEPT !.failureCount = 0, !.successCount = n]
      BY <1>3 DEF RecordSuccess, Breaker
    <2>2. n \in Nat
      BY DEF Breaker
    <2>3. RecordSuccess(b) \in Breaker
      <3>1. RecordSuccess(b) = [state |-> b.state, failureCount |-> 0,
                                successCount |-> n, sinceFailure |-> b.sinceFailure]
        BY <2>1 DEF Breaker
      <3> QED BY <2>2, <3>1 DEF Breaker
    <2> QED BY <1>3, <2>1, <2>3 DEF Breaker
  <1> QED BY <1>1, <1>2, <1>3

\* RecordFailure counts and stamps the failure; a closed circuit has fewer than
\* FailureThresh of them.
LEMMA RecordFailureFacts ==
  ASSUME NEW b \in Breaker
  PROVE  /\ RecordFailure(b) \in Breaker
         /\ RecordFailure(b).failureCount = b.failureCount + 1
         /\ RecordFailure(b).sinceFailure = 0
         /\ RecordFailure(b).state # "half-open"
         /\ RecordFailure(b).state = "closed" =>
              b.state = "closed" /\ b.failureCount + 1 < FailureThresh
  <1> DEFINE n == b.failureCount + 1
             opens == b.state = "half-open" \/ n >= FailureThresh
  <1>1. n \in Nat /\ 0 \in Elapsed
    BY DEF Breaker, Elapsed
  <1>2. CASE opens
    <2>1. RecordFailure(b) = [b EXCEPT !.failureCount = n, !.sinceFailure = 0, !.state = "open"]
      BY <1>2 DEF RecordFailure
    <2> QED BY <1>1, <2>1 DEF Breaker, State
  <1>3. CASE ~opens
    <2>1. RecordFailure(b) = [b EXCEPT !.failureCount = n, !.sinceFailure = 0, !.state = b.state]
      BY <1>3 DEF RecordFailure, Breaker
    <2>2. RecordFailure(b) \in Breaker
      BY <1>1, <2>1 DEF Breaker
    <2>3. b.state # "half-open" /\ n < FailureThresh
      BY <1>1, <1>3
    <2> QED BY <1>1, <2>1, <2>2, <2>3 DEF Breaker
  <1> QED BY <1>2, <1>3

\* The passing of time changes the age of the last failure and nothing else.
LEMMA AgedFacts ==
  ASSUME NEW b \in Breaker
  PROVE  /\ Aged(b) \in Breaker
         /\ Aged(b).failureCount = b.failureCount
         /\ Aged(b).successCount = b.successCount
         /\ Aged(b).state = b.state
         /\ Aged(b).sinceFailure = Later(b.sinceFailure)
  BY LaterType DEF Aged, Breaker
-----------------------------------------------------------------------------
(* Type correctness.                                                       *)

\* A delivery is tried at least once.
LEMMA MaxRetriesType == MaxRetries \in Nat \ {0}
  BY DispatcherAssumption DEF MaxRetries

\* Every delivery is to one of the URLs.
LEMMA UrlOfType == ASSUME NEW d \in Deliveries PROVE UrlOf(d) \in URLs
  BY DispatcherAssumption DEF UrlOf, Deliveries

\* Updating the object a delivery refers to keeps the heap well typed, also
\* when there is no such object.
LEMMA HeapUpdate ==
  ASSUME NEW h \in [Deliveries -> Breaker], NEW r, NEW b, r \in Deliveries => b \in Breaker
  PROVE  [h EXCEPT ![r] = b] \in [Deliveries -> Breaker]
  <1>1. CASE r \in Deliveries
    BY <1>1
  <1>2. CASE r \notin Deliveries
    BY <1>2
  <1> QED BY <1>1, <1>2

\* The initial state is well typed.
LEMMA InitType == Init => TypeOK
  BY NewBreakerType, MaxRetriesType DEF Init, TypeOK, Settled, Running, Elapsed, Expired

\* The end of a delivery keeps the types of its local variables.
LEMMA SettleType ==
  ASSUME TypeOK, NEW d \in Deliveries, NEW o \in Settled, Settle(d, o)
  PROVE  /\ pc' \in [Deliveries -> Settled \cup Running]
         /\ ref' \in [Deliveries -> Deliveries \cup {NoBreaker}]
         /\ attempt' \in [Deliveries -> 0 .. MaxRetries]
         /\ wait' \in [Deliveries -> Nat]
  BY MaxRetriesType DEF TypeOK, Settle

\* A failed attempt keeps the types of the local variables.
LEMMA RetryType ==
  ASSUME TypeOK, NEW d \in Deliveries, Retry(d)
  PROVE  /\ pc' \in [Deliveries -> Settled \cup Running]
         /\ ref' \in [Deliveries -> Deliveries \cup {NoBreaker}]
         /\ attempt' \in [Deliveries -> 0 .. MaxRetries]
         /\ wait' \in [Deliveries -> Nat]
  <1> DEFINE n == attempt[d] + 1
  <1>1. CASE n < MaxRetries /\ pc' = [pc EXCEPT ![d] = "backoff"]
             /\ attempt' = [attempt EXCEPT ![d] = n]
             /\ wait' = [wait EXCEPT ![d] = Delay(n)] /\ UNCHANGED ref
    <2>1. n \in 0 .. MaxRetries /\ Delay(n) \in Nat
      BY <1>1, DispatcherAssumption DEF TypeOK, Delay, MaxRetries
    <2> HIDE DEF n
    <2> QED BY <1>1, <2>1 DEF TypeOK, Running
  <1>2. CASE Settle(d, "exhausted")
    BY <1>2, SettleType DEF Settled
  <1> QED BY <1>1, <1>2 DEF Retry

\* A step of a delivery keeps the types.
LEMMA StepType ==
  ASSUME TypeOK, NEW d \in Deliveries, Step(d)
  PROVE  TypeOK'
  <1> USE DEF TypeOK
  <1>1. CASE LookupBreaker(d)
    BY <1>1, UrlOfType DEF LookupBreaker, Running, history
  <1>2. CASE CreateBreaker(d)
    <2>1. CASE breakers[UrlOf(d)] # NoBreaker
      BY <1>2, <2>1, UrlOfType DEF CreateBreaker, Running, history
    <2>2. CASE breakers[UrlOf(d)] = NoBreaker
      <3>1. heap' \in [Deliveries -> Breaker]
        BY <1>2, <2>2, NewBreakerType DEF CreateBreaker
      <3>2. breakers' \in [URLs -> Deliveries \cup {NoBreaker}]
        BY <1>2, <2>2, UrlOfType DEF CreateBreaker
      <3>3. ref' \in [Deliveries -> Deliveries \cup {NoBreaker}]
        BY <1>2, <2>2 DEF CreateBreaker
      <3> QED BY <1>2, <3>1, <3>2, <3>3 DEF CreateBreaker, Running, history
    <2> QED BY <2>1, <2>2
  <1>3. CASE Admit(d)
    <2>1. heap' \in [Deliveries -> Breaker]
      <3>1. heap' = [heap EXCEPT ![ref[d]] = Allow(heap[ref[d]]).cb]
        BY <1>3 DEF Admit
      <3>2. ref[d] \in Deliveries => Allow(heap[ref[d]]).cb \in Breaker
        BY AllowFacts
      <3> QED BY <3>1, <3>2, HeapUpdate
    <2>2. CASE pc' = [pc EXCEPT ![d] = "ready"] /\ UNCHANGED <<ref, attempt, wait>>
      BY <1>3, <2>1, <2>2 DEF Admit, Running, history
    <2>3. CASE \E o \in {"skipped", "malformed"} : Settle(d, o)
      BY <1>3, <2>1, <2>3, SettleType DEF Admit, Settled, history
    <2> QED BY <1>3, <2>2, <2>3 DEF Admit
  <1>4. CASE SendPost(d)
    BY <1>4 DEF SendPost, Running, history
  <1>5. CASE CreateRequestFails(d)
    BY <1>5, RetryType DEF CreateRequestFails, history
  <1>6. CASE PostFails(d)
    <2>1. heap' \in [Deliveries -> Breaker]
      <3>1. heap' = [heap EXCEPT ![ref[d]] = RecordFailure(heap[ref[d]])]
        BY <1>6 DEF PostFails
      <3>2. ref[d] \in Deliveries => RecordFailure(heap[ref[d]]) \in Breaker
        BY RecordFailureFacts
      <3> QED BY <3>1, <3>2, HeapUpdate
    <2>2. quiet' \in [URLs -> Elapsed] /\ failRun' \in [URLs -> Nat] /\ okRun' \in [URLs -> Nat]
      <3>1. 0 \in Elapsed
        BY DEF Elapsed
      <3> QED BY <1>6, <3>1, UrlOfType DEF PostFails
    <2>3. Retry(d) /\ UNCHANGED <<stage, breakers>>
      BY <1>6 DEF PostFails
    <2> QED BY <2>1, <2>2, <2>3, RetryType
  <1>7. CASE PostRefused(d)
    BY <1>7, SettleType DEF PostRefused, Settled, history
  <1>8. CASE PostSucceeds(d)
    <2>1. heap' \in [Deliveries -> Breaker]
      <3>1. heap' = [heap EXCEPT ![ref[d]] = RecordSuccess(heap[ref[d]])]
        BY <1>8 DEF PostSucceeds
      <3>2. ref[d] \in Deliveries => RecordSuccess(heap[ref[d]]) \in Breaker
        BY RecordSuccessFacts
      <3> QED BY <3>1, <3>2, HeapUpdate
    <2>2. failRun' \in [URLs -> Nat] /\ okRun' \in [URLs -> Nat]
      BY <1>8, UrlOfType DEF PostSucceeds
    <2>3. Settle(d, "accepted") /\ UNCHANGED <<stage, breakers, quiet>>
      BY <1>8 DEF PostSucceeds
    <2> QED BY <2>1, <2>2, <2>3, SettleType DEF Settled
  <1>9. CASE Wake(d)
    BY <1>9 DEF Wake, Running, history
  <1> QED BY <1>1, <1>2, <1>3, <1>4, <1>5, <1>6, <1>7, <1>8, <1>9 DEF Step

\* Every step keeps the types.
LEMMA NextType == TypeOK /\ [Next]_vars => TypeOK'
  <1> SUFFICES ASSUME TypeOK, [Next]_vars PROVE TypeOK'
    OBVIOUS
  <1>1. ASSUME NEW e \in Events, ProcessEvent(e) PROVE TypeOK'
    BY <1>1 DEF ProcessEvent, TypeOK, Running, history
  <1>2. ASSUME NEW e \in Events, DeliverReturns(e) PROVE TypeOK'
    BY <1>2 DEF DeliverReturns, TypeOK, history
  <1>3. CASE Tick
    BY <1>3, AgedFacts, LaterType DEF Tick, TypeOK
  <1>4. CASE UNCHANGED vars
    BY <1>4 DEF vars, TypeOK
  <1> QED BY <1>1, <1>2, <1>3, <1>4, StepType DEF Next

\* Every variable keeps its type: counters, references and waits of every
\* delivery, however many goroutines run.
THEOREM TypeCorrect == Spec => []TypeOK
  BY InitType, NextType, PTL DEF Spec

-----------------------------------------------------------------------------
(* The breakers agree with the history of their endpoints.                 *)

\* The inductive invariant holds initially.
LEMMA InitInv == Init => IInv
  <1> SUFFICES ASSUME Init PROVE SharedBreaker /\ OwnBreaker /\ Tracking
    BY InitType DEF IInv
  <1> QED BY DEF Init, SharedBreaker, OwnBreaker, Tracking, Holding

\* A delivery that holds a breaker holds an object of the heap that belongs to
\* its URL and to no other.
LEMMA HeldBreaker ==
  ASSUME IInv, NEW d \in Deliveries, pc[d] \in Holding
  PROVE  /\ ref[d] \in Deliveries
         /\ heap[ref[d]] \in Breaker
         /\ ref[d] = breakers[UrlOf(d)]
         /\ UrlOf(d) \in URLs
         /\ TracksHistory(UrlOf(d))
         /\ \A u \in URLs : breakers[u] = ref[d] => u = UrlOf(d)
  <1>1. UrlOf(d) \in URLs /\ ref[d] = breakers[UrlOf(d)] /\ ref[d] # NoBreaker
    BY UrlOfType DEF IInv, SharedBreaker
  <1>2. ref[d] \in Deliveries
    BY <1>1 DEF IInv, TypeOK
  <1>3. TracksHistory(UrlOf(d))
    BY <1>1 DEF IInv, Tracking
  <1>4. \A u \in URLs : breakers[u] = ref[d] => u = UrlOf(d)
    BY <1>1 DEF IInv, OwnBreaker
  <1> QED BY <1>1, <1>2, <1>3, <1>4 DEF IInv, TypeOK

\* A step that moves d without touching breakers, and that leaves d without a
\* breaker or with the one it had, keeps deliveries and breakers together.
LEMMA SharedKept ==
  ASSUME IInv, NEW d \in Deliveries, UNCHANGED breakers,
         \A x \in Deliveries : x # d => pc'[x] = pc[x] /\ ref'[x] = ref[x],
         pc'[d] \in Holding => pc[d] \in Holding /\ ref'[d] = ref[d]
  PROVE  SharedBreaker' /\ OwnBreaker'
  BY DEF IInv, SharedBreaker, OwnBreaker, UrlOf

\* The end of a delivery keeps deliveries and breakers together.
LEMMA SettleShared ==
  ASSUME IInv, NEW d \in Deliveries, NEW o \in Settled, Settle(d, o), UNCHANGED breakers
  PROVE  SharedBreaker' /\ OwnBreaker'
  BY SharedKept DEF Settle, Settled, Holding, IInv, TypeOK

\* A failed attempt keeps deliveries and breakers together.
LEMMA RetryShared ==
  ASSUME IInv, NEW d \in Deliveries, pc[d] \in Holding, Retry(d), UNCHANGED breakers
  PROVE  SharedBreaker' /\ OwnBreaker'
  <1>1. CASE Settle(d, "exhausted")
    BY <1>1, SettleShared DEF Settled
  <1>2. CASE ~Settle(d, "exhausted")
    BY <1>2, SharedKept DEF Retry, IInv, TypeOK
  <1> QED BY <1>1, <1>2

\* The effect of replacing the object d holds by b and the history of its URL.
LEMMA TrackingKept ==
  ASSUME IInv, NEW d \in Deliveries, pc[d] \in Holding, UNCHANGED breakers,
         NEW b, heap' = [heap EXCEPT ![ref[d]] = b],
         \A u \in URLs : u # UrlOf(d) =>
            failRun'[u] = failRun[u] /\ okRun'[u] = okRun[u] /\ quiet'[u] = quiet[u],
         b.failureCount = failRun'[UrlOf(d)],
         b.sinceFailure = quiet'[UrlOf(d)],
         b.state = "closed" => b.failureCount < FailureThresh,
         b.state = "half-open" => b.successCount <= okRun'[UrlOf(d)]
  PROVE  Tracking'
  <1> SUFFICES ASSUME NEW u \in URLs
               PROVE  IF breakers[u] = NoBreaker
                      THEN failRun'[u] = 0 /\ quiet'[u] = Expired
                      ELSE TracksHistory(u)'
    BY DEF Tracking
  <1>1. CASE u = UrlOf(d)
    <2>1. breakers[u] = ref[d] /\ breakers[u] # NoBreaker /\ heap'[breakers'[u]] = b
      BY <1>1, HeldBreaker, DispatcherAssumption DEF IInv, TypeOK
    <2> QED BY <1>1, <2>1 DEF TracksHistory
  <1>2. CASE u # UrlOf(d) /\ breakers[u] # NoBreaker
    <2>1. heap'[breakers[u]] = heap[breakers[u]]
      BY <1>2, HeldBreaker DEF IInv, TypeOK
    <2> QED BY <1>2, <2>1 DEF IInv, Tracking, TracksHistory
  <1>3. CASE u # UrlOf(d) /\ breakers[u] = NoBreaker
    BY <1>3 DEF IInv, Tracking
  <1> QED BY <1>1, <1>2, <1>3

\* The history is where it was.
SameHistory == UNCHANGED <<breakers, heap, history>>

\* A step that touches neither breakers nor answers keeps the tracking.
LEMMA TrackingSame == ASSUME IInv, SameHistory PROVE Tracking'
  BY DEF IInv, SameHistory, history, Tracking, TracksHistory

\* Creating a breaker under the write lock gives a URL its only breaker, which
\* knows of no answer because there was none.
LEMMA CreateInv ==
  ASSUME IInv, NEW d \in Deliveries, CreateBreaker(d)
  PROVE  SharedBreaker' /\ OwnBreaker' /\ Tracking'
  <1> USE UrlOfType
  <1>1. CASE breakers[UrlOf(d)] # NoBreaker
    <2>1. SharedBreaker' /\ OwnBreaker'
      BY <1>1 DEF CreateBreaker, IInv, TypeOK, SharedBreaker, OwnBreaker, Holding, UrlOf
    <2> QED BY <1>1, <2>1, TrackingSame DEF CreateBreaker, SameHistory, history
  <1>2. CASE breakers[UrlOf(d)] = NoBreaker
    <2>1. /\ breakers' = [breakers EXCEPT ![UrlOf(d)] = d]
          /\ heap' = [heap EXCEPT ![d] = NewCircuitBreaker]
          /\ ref' = [ref EXCEPT ![d] = d] /\ pc' = [pc EXCEPT ![d] = "admit"]
          /\ UNCHANGED history
      BY <1>2 DEF CreateBreaker
    <2>2. d # NoBreaker
      BY DispatcherAssumption
    <2>3. SharedBreaker'
      BY <1>2, <2>1, <2>2 DEF IInv, TypeOK, SharedBreaker, UrlOf
    <2>4. OwnBreaker'
      BY <1>2, <2>1, <2>2 DEF IInv, TypeOK, OwnBreaker, UrlOf
    <2>5. ASSUME NEW u \in URLs
          PROVE  IF breakers'[u] = NoBreaker
                 THEN failRun'[u] = 0 /\ quiet'[u] = Expired
                 ELSE TracksHistory(u)'
      <3>1. CASE u = UrlOf(d)
        <4>1. breakers'[u] = d /\ heap'[d] = NewCircuitBreaker
          BY <2>1, <3>1 DEF IInv, TypeOK
        <4>2. failRun'[u] = 0 /\ quiet'[u] = Expired
          BY <1>2, <2>1, <3>1 DEF IInv, Tracking, history
        <4> QED BY <2>2, <4>1, <4>2 DEF TracksHistory, NewCircuitBreaker
      <3>2. CASE u # UrlOf(d) /\ breakers[u] # NoBreaker
        <4>1. breakers'[u] = breakers[u] /\ breakers[u] # d
          BY <2>1, <3>2 DEF IInv, TypeOK, OwnBreaker
        <4>2. heap'[breakers'[u]] = heap[breakers[u]]
          BY <2>1, <3>2, <4>1 DEF IInv, TypeOK
        <4> QED BY <2>1, <3>2, <4>1, <4>2 DEF IInv, Tracking, TracksHistory, history
      <3>3. CASE u # UrlOf(d) /\ breakers[u] = NoBreaker
        BY <2>1, <3>3 DEF IInv, TypeOK, Tracking, history
      <3> QED BY <3>1, <3>2, <3>3
    <2> QED BY <2>3, <2>4, <2>5 DEF Tracking
  <1> QED BY <1>1, <1>2

\* Allow keeps what the breaker knows about the answers of its URL.
LEMMA AdmitInv ==
  ASSUME IInv, NEW d \in Deliveries, Admit(d)
  PROVE  SharedBreaker' /\ OwnBreaker' /\ Tracking'
  <1> DEFINE b == Allow(heap[ref[d]]).cb
  <1>1. pc[d] \in Holding /\ UNCHANGED breakers /\ UNCHANGED history
        /\ heap' = [heap EXCEPT ![ref[d]] = b]
    BY DEF Admit, Holding
  <1>2. SharedBreaker' /\ OwnBreaker'
    <2>1. CASE \E o \in {"skipped", "malformed"} : Settle(d, o)
      BY <1>1, <2>1, SettleShared DEF Settled
    <2>2. CASE ~(\E o \in {"skipped", "malformed"} : Settle(d, o))
      BY <1>1, <2>2, SharedKept DEF Admit, IInv, TypeOK
    <2> QED BY <2>1, <2>2
  <1>3. /\ b.failureCount = failRun[UrlOf(d)]
        /\ b.sinceFailure = quiet[UrlOf(d)]
        /\ b.state = "closed" => b.failureCount < FailureThresh
        /\ b.state = "half-open" => b.successCount <= okRun[UrlOf(d)]
    <2>1. heap[ref[d]] \in Breaker /\ TracksHistory(UrlOf(d)) /\ ref[d] = breakers[UrlOf(d)]
          /\ okRun[UrlOf(d)] \in Nat
      BY <1>1, HeldBreaker DEF IInv, TypeOK
    <2> HIDE DEF b
    <2>2. b.failureCount = heap[ref[d]].failureCount /\ b.sinceFailure = heap[ref[d]].sinceFailure
      BY <2>1, AllowFacts DEF b
    <2>3. b = heap[ref[d]] \/ (b.state = "half-open" /\ b.successCount = 0)
      BY <2>1, AllowFacts DEF b
    <2> QED BY <2>1, <2>2, <2>3 DEF TracksHistory
  <1> HIDE DEF b
  <1>4. Tracking'
    BY <1>1, <1>3, TrackingKept DEF history
  <1> QED BY <1>2, <1>4

\* A failure is recorded in the breaker and in the history alike.
LEMMA FailInv ==
  ASSUME IInv, NEW d \in Deliveries, PostFails(d)
  PROVE  SharedBreaker' /\ OwnBreaker' /\ Tracking'
  <1> DEFINE b == RecordFailure(heap[ref[d]])
             u == UrlOf(d)
  <1>1. /\ pc[d] \in Holding /\ UNCHANGED breakers /\ Retry(d)
        /\ heap' = [heap EXCEPT ![ref[d]] = b]
        /\ failRun' = [failRun EXCEPT ![u] = failRun[u] + 1]
        /\ okRun' = [okRun EXCEPT ![u] = 0] /\ quiet' = [quiet EXCEPT ![u] = 0]
    BY DEF PostFails, Holding
  <1>2. heap[ref[d]] \in Breaker /\ TracksHistory(u) /\ ref[d] = breakers[u] /\ u \in URLs
    BY <1>1, HeldBreaker
  <1> HIDE DEF b
  <1>3. /\ b.failureCount = heap[ref[d]].failureCount + 1 /\ b.sinceFailure = 0
        /\ b.state # "half-open"
        /\ b.state = "closed" => heap[ref[d]].failureCount + 1 < FailureThresh
    BY <1>2, RecordFailureFacts DEF b
  <1>4. failRun'[u] = failRun[u] + 1 /\ quiet'[u] = 0
    BY <1>1, <1>2 DEF IInv, TypeOK
  <1>5. \A v \in URLs : v # u =>
           failRun'[v] = failRun[v] /\ okRun'[v] = okRun[v] /\ quiet'[v] = quiet[v]
    BY <1>1 DEF IInv, TypeOK
  <1>6. b.failureCount = failRun'[u] /\ b.sinceFailure = quiet'[u]
        /\ (b.state = "closed" => b.failureCount < FailureThresh)
    BY <1>2, <1>3, <1>4 DEF TracksHistory
  <1>7. Tracking'
    BY <1>1, <1>3, <1>5, <1>6, TrackingKept
  <1> QED BY <1>1, <1>7, RetryShared

\* A success is recorded in the breaker and in the history alike.
LEMMA SuccessInv ==
  ASSUME IInv, NEW d \in Deliveries, PostSucceeds(d)
  PROVE  SharedBreaker' /\ OwnBreaker' /\ Tracking'
  <1> DEFINE b == RecordSuccess(heap[ref[d]])
             u == UrlOf(d)
  <1>1. /\ pc[d] \in Holding /\ UNCHANGED breakers /\ Settle(d, "accepted")
        /\ heap' = [heap EXCEPT ![ref[d]] = b]
        /\ failRun' = [failRun EXCEPT ![u] = 0]
        /\ okRun' = [okRun EXCEPT ![u] = okRun[u] + 1] /\ UNCHANGED quiet
    BY DEF PostSucceeds, Holding
  <1>2. heap[ref[d]] \in Breaker /\ TracksHistory(u) /\ ref[d] = breakers[u] /\ u \in URLs
    BY <1>1, HeldBreaker
  <1> HIDE DEF b
  <1>3. /\ b.failureCount = 0 /\ b.sinceFailure = heap[ref[d]].sinceFailure
        /\ b.state = "half-open" =>
             heap[ref[d]].state = "half-open" /\ b.successCount = heap[ref[d]].successCount + 1
    BY <1>2, RecordSuccessFacts DEF b
  <1>4. failRun'[u] = 0 /\ okRun'[u] = okRun[u] + 1 /\ okRun[u] \in Nat
        /\ heap[ref[d]].successCount \in Nat
    BY <1>1, <1>2 DEF IInv, TypeOK, Breaker
  <1>5. \A v \in URLs : v # u =>
           failRun'[v] = failRun[v] /\ okRun'[v] = okRun[v] /\ quiet'[v] = quiet[v]
    BY <1>1 DEF IInv, TypeOK
  <1>6. /\ b.failureCount = failRun'[u] /\ b.sinceFailure = quiet'[u]
        /\ (b.state = "half-open" => b.successCount <= okRun'[u])
        /\ b.failureCount < FailureThresh
    BY <1>1, <1>2, <1>3, <1>4 DEF TracksHistory
  <1>7. Tracking'
    BY <1>1, <1>5, <1>6, TrackingKept
  <1> QED BY <1>1, <1>7, SettleShared DEF Settled

\* A step of a delivery keeps the inductive invariant.
LEMMA StepInv ==
  ASSUME IInv, NEW d \in Deliveries, Step(d)
  PROVE  SharedBreaker' /\ OwnBreaker' /\ Tracking'
  <1>1. CASE LookupBreaker(d)
    <2>1. SharedBreaker' /\ OwnBreaker'
      BY <1>1, UrlOfType DEF LookupBreaker, IInv, TypeOK, SharedBreaker, OwnBreaker, Holding, UrlOf
    <2> QED BY <1>1, <2>1, TrackingSame DEF LookupBreaker, SameHistory
  <1>2. CASE CreateBreaker(d)
    BY <1>2, CreateInv
  <1>3. CASE Admit(d)
    BY <1>3, AdmitInv
  <1>4. CASE SendPost(d)
    <2>1. SharedBreaker' /\ OwnBreaker'
      BY <1>4, SharedKept DEF SendPost, Holding, IInv, TypeOK
    <2> QED BY <1>4, <2>1, TrackingSame DEF SendPost, SameHistory
  <1>5. CASE CreateRequestFails(d)
    BY <1>5, RetryShared, TrackingSame DEF CreateRequestFails, SameHistory, Holding
  <1>6. CASE PostFails(d)
    BY <1>6, FailInv
  <1>7. CASE PostRefused(d)
    BY <1>7, SettleShared, TrackingSame DEF PostRefused, SameHistory, Settled
  <1>8. CASE PostSucceeds(d)
    BY <1>8, SuccessInv
  <1>9. CASE Wake(d)
    <2>1. SharedBreaker' /\ OwnBreaker'
      BY <1>9, SharedKept DEF Wake, Holding, IInv, TypeOK
    <2> QED BY <1>9, <2>1, TrackingSame DEF Wake, SameHistory
  <1> QED BY <1>1, <1>2, <1>3, <1>4, <1>5, <1>6, <1>7, <1>8, <1>9 DEF Step

\* Breakers and history age together.
LEMMA TickInv == ASSUME IInv, Tick PROVE SharedBreaker' /\ OwnBreaker' /\ Tracking'
  <1>1. SharedBreaker' /\ OwnBreaker'
    BY DEF Tick, IInv, SharedBreaker, OwnBreaker, UrlOf
  <1>2. ASSUME NEW u \in URLs, breakers[u] = NoBreaker
        PROVE  failRun'[u] = 0 /\ quiet'[u] = Expired
    BY <1>2 DEF Tick, IInv, Tracking, Later, Expired
  <1>3. ASSUME NEW u \in URLs, breakers[u] # NoBreaker
        PROVE  TracksHistory(u)'
    <2>1. breakers[u] \in Deliveries /\ heap[breakers[u]] \in Breaker /\ TracksHistory(u)
      BY <1>3 DEF IInv, TypeOK, Tracking
    <2>2. heap'[breakers'[u]] = Aged(heap[breakers[u]])
      BY <2>1 DEF Tick
    <2>3. quiet'[u] = Later(quiet[u]) /\ UNCHANGED <<failRun, okRun>>
      BY DEF Tick
    <2> QED BY <2>1, <2>2, <2>3, AgedFacts DEF TracksHistory
  <1> QED BY <1>1, <1>2, <1>3 DEF Tracking, Tick

\* Every step keeps the inductive invariant.
LEMMA NextInv == IInv /\ [Next]_vars => IInv'
  <1> SUFFICES ASSUME IInv, [Next]_vars PROVE SharedBreaker' /\ OwnBreaker' /\ Tracking'
    BY NextType DEF IInv
  <1>1. ASSUME NEW e \in Events, ProcessEvent(e) PROVE SharedBreaker' /\ OwnBreaker' /\ Tracking'
    <2>1. SharedBreaker' /\ OwnBreaker'
      BY <1>1 DEF ProcessEvent, IInv, TypeOK, SharedBreaker, OwnBreaker, Holding, UrlOf
    <2> QED BY <1>1, <2>1, TrackingSame DEF ProcessEvent, SameHistory
  <1>2. ASSUME NEW e \in Events, DeliverReturns(e) PROVE SharedBreaker' /\ OwnBreaker' /\ Tracking'
    <2>1. SharedBreaker' /\ OwnBreaker'
      BY <1>2 DEF DeliverReturns, IInv, SharedBreaker, OwnBreaker, UrlOf
    <2> QED BY <1>2, <2>1, TrackingSame DEF DeliverReturns, SameHistory
  <1>3. CASE UNCHANGED vars
    <2>1. SharedBreaker' /\ OwnBreaker'
      BY <1>3 DEF vars, IInv, SharedBreaker, OwnBreaker, UrlOf
    <2> QED BY <1>3, <2>1, TrackingSame DEF vars, SameHistory, history
  <1> QED BY <1>1, <1>2, <1>3, StepInv, TickInv DEF Next

\* Breakers are shared per URL, belong to one URL, and know of the answers of
\* their URL what the history says (dispatcher.go:143-160, breaker.go:54-100).
THEOREM InductiveInvariant == Spec => []IInv
  BY InitInv, NextInv, PTL DEF Spec

\* getBreaker gives every delivery to a URL the same breaker, however many
\* goroutines find the map empty at once (dispatcher.go:143-160).
THEOREM OneBreakerPerURL == Spec => []SharedBreaker
  <1>1. IInv => SharedBreaker
    BY DEF IInv
  <1> QED BY <1>1, InductiveInvariant, PTL

\* The circuit of an endpoint is not closed after FailureThresh failures in a
\* row, over all the deliveries to it (breaker.go:76-100).
THEOREM CircuitOpens == Spec => []FailingIsNotClosed
  <1>1. IInv => FailingIsNotClosed
    <2> SUFFICES ASSUME IInv, NEW u \in URLs, failRun[u] >= FailureThresh
                 PROVE  breakers[u] # NoBreaker /\ heap[breakers[u]].state # "closed"
      BY DEF FailingIsNotClosed
    <2> QED BY DEF IInv, TypeOK, Tracking, TracksHistory
  <1> QED BY <1>1, InductiveInvariant, PTL

-----------------------------------------------------------------------------
(* What a step may do to a circuit.                                        *)

\* A step that replaces the object d holds moves the circuit of its URL only.
LEMMA CircuitMoves ==
  ASSUME IInv, NEW d \in Deliveries, pc[d] \in Holding, UNCHANGED breakers,
         NEW b, heap' = [heap EXCEPT ![ref[d]] = b], NEW u \in URLs
  PROVE  /\ u = UrlOf(d) => StateOf(u) = heap[ref[d]].state /\ StateOf(u)' = b.state
         /\ u # UrlOf(d) => StateOf(u)' = StateOf(u)
  <1>1. CASE u = UrlOf(d)
    <2>1. breakers[u] = ref[d] /\ ref[d] # NoBreaker /\ heap'[ref[d]] = b
      BY <1>1, HeldBreaker, DispatcherAssumption DEF IInv, TypeOK
    <2> QED BY <1>1, <2>1 DEF StateOf
  <1>2. CASE u # UrlOf(d)
    <2>1. breakers[u] # NoBreaker => heap'[breakers[u]] = heap[breakers[u]]
      BY <1>2, HeldBreaker DEF IInv, TypeOK
    <2> QED BY <1>2, <2>1 DEF StateOf
  <1> QED BY <1>1, <1>2

\* The three ways the circuit of a URL changes state.
CircuitStep(u) ==
  \/ StateOf(u)' = StateOf(u)
  \/ StateOf(u) = "open" /\ StateOf(u)' = "half-open" /\ quiet[u] > OpenTimeout
  \/ StateOf(u)' = "open"
  \/ StateOf(u) = "half-open" /\ StateOf(u)' = "closed" /\ okRun'[u] >= SuccessThresh

\* A step that touches no breaker moves no circuit.
LEMMA CircuitSame ==
  ASSUME UNCHANGED <<breakers, heap>>, NEW u \in URLs PROVE CircuitStep(u)
  BY DEF CircuitStep, StateOf

\* Allow moves a circuit only from open to half-open, after openTimeout.
LEMMA CircuitAdmit ==
  ASSUME IInv, NEW d \in Deliveries, Admit(d), NEW u \in URLs
  PROVE  CircuitStep(u)
  <1> DEFINE b == Allow(heap[ref[d]]).cb
  <1>1. pc[d] \in Holding /\ UNCHANGED breakers /\ heap' = [heap EXCEPT ![ref[d]] = b]
    BY DEF Admit, Holding
  <1>2. heap[ref[d]] \in Breaker /\ TracksHistory(UrlOf(d)) /\ ref[d] = breakers[UrlOf(d)]
    BY <1>1, HeldBreaker
  <1> HIDE DEF b
  <1>3. \/ b = heap[ref[d]]
        \/ heap[ref[d]].state = "open" /\ heap[ref[d]].sinceFailure > OpenTimeout
           /\ b.state = "half-open"
    BY <1>2, AllowFacts DEF b
  <1>4. /\ u = UrlOf(d) => StateOf(u) = heap[ref[d]].state /\ StateOf(u)' = b.state
        /\ u # UrlOf(d) => StateOf(u)' = StateOf(u)
    BY <1>1, CircuitMoves
  <1> QED BY <1>2, <1>3, <1>4 DEF CircuitStep, TracksHistory

\* A failure never closes a circuit and never makes it half-open.
LEMMA CircuitFails ==
  ASSUME IInv, NEW d \in Deliveries, PostFails(d), NEW u \in URLs
  PROVE  CircuitStep(u)
  <1> DEFINE b == RecordFailure(heap[ref[d]])
  <1>1. pc[d] \in Holding /\ UNCHANGED breakers /\ heap' = [heap EXCEPT ![ref[d]] = b]
    BY DEF PostFails, Holding
  <1>2. heap[ref[d]] \in Breaker
    BY <1>1, HeldBreaker
  <1> HIDE DEF b
  <1>3. b.state = "open" \/ (b.state = "closed" /\ heap[ref[d]].state = "closed")
    BY <1>2, RecordFailureFacts DEF b, Breaker, State
  <1>4. /\ u = UrlOf(d) => StateOf(u) = heap[ref[d]].state /\ StateOf(u)' = b.state
        /\ u # UrlOf(d) => StateOf(u)' = StateOf(u)
    BY <1>1, CircuitMoves
  <1> QED BY <1>3, <1>4 DEF CircuitStep

\* A success closes a circuit only as the last of SuccessThresh.
LEMMA CircuitSucceeds ==
  ASSUME IInv, NEW d \in Deliveries, PostSucceeds(d), NEW u \in URLs
  PROVE  CircuitStep(u)
  <1> DEFINE b == RecordSuccess(heap[ref[d]])
  <1>1. /\ pc[d] \in Holding /\ UNCHANGED breakers
        /\ heap' = [heap EXCEPT ![ref[d]] = b]
        /\ okRun' = [okRun EXCEPT ![UrlOf(d)] = okRun[UrlOf(d)] + 1]
    BY DEF PostSucceeds, Holding
  <1>2. /\ heap[ref[d]] \in Breaker /\ TracksHistory(UrlOf(d)) /\ ref[d] = breakers[UrlOf(d)]
        /\ UrlOf(d) \in URLs
    BY <1>1, HeldBreaker
  <1>3. okRun'[UrlOf(d)] = okRun[UrlOf(d)] + 1 /\ okRun[UrlOf(d)] \in Nat
        /\ heap[ref[d]].successCount \in Nat
    BY <1>1, <1>2 DEF IInv, TypeOK, Breaker
  <1> HIDE DEF b
  <1>4. /\ heap[ref[d]].state # "closed" /\ b.state = "closed" =>
              heap[ref[d]].state = "half-open" /\ heap[ref[d]].successCount + 1 >= SuccessThresh
        /\ b.state = "half-open" => heap[ref[d]].state = "half-open"
        /\ b.state = "half-open" \/ b.state = heap[ref[d]].state \/ b.state = "closed"
    BY <1>2, RecordSuccessFacts DEF b
  <1>5. heap[ref[d]].state = "half-open" => heap[ref[d]].successCount <= okRun[UrlOf(d)]
    BY <1>2 DEF TracksHistory
  <1>6. /\ u = UrlOf(d) => StateOf(u) = heap[ref[d]].state /\ StateOf(u)' = b.state
        /\ u # UrlOf(d) => StateOf(u)' = StateOf(u)
    BY <1>1, CircuitMoves
  <1>7. okRun[UrlOf(d)] + 1 >= SuccessThresh \/ ~(heap[ref[d]].state # "closed" /\ b.state = "closed")
    BY <1>3, <1>4, <1>5
  <1> QED BY <1>3, <1>4, <1>6, <1>7 DEF CircuitStep

\* Creating a breaker starts a circuit as closed, which it was.
LEMMA CircuitCreate ==
  ASSUME IInv, NEW d \in Deliveries, CreateBreaker(d), NEW u \in URLs
  PROVE  CircuitStep(u)
  <1>1. CASE breakers[UrlOf(d)] # NoBreaker
    BY <1>1, CircuitSame DEF CreateBreaker
  <1>2. CASE breakers[UrlOf(d)] = NoBreaker
    <2>1. /\ breakers' = [breakers EXCEPT ![UrlOf(d)] = d]
          /\ heap' = [heap EXCEPT ![d] = NewCircuitBreaker]
      BY <1>2 DEF CreateBreaker
    <2>2. CASE u = UrlOf(d)
      <3>1. breakers'[u] = d /\ d # NoBreaker /\ heap'[d].state = "closed"
        BY <2>1, <2>2, DispatcherAssumption DEF IInv, TypeOK, NewCircuitBreaker
      <3> QED BY <1>2, <2>2, <3>1 DEF CircuitStep, StateOf
    <2>3. CASE u # UrlOf(d)
      <3>1. breakers'[u] = breakers[u]
            /\ (breakers[u] # NoBreaker => heap'[breakers[u]] = heap[breakers[u]])
        BY <2>1, <2>3 DEF IInv, TypeOK, OwnBreaker
      <3> QED BY <3>1 DEF CircuitStep, StateOf
    <2> QED BY <2>2, <2>3
  <1> QED BY <1>1, <1>2

\* Time moves no circuit.
LEMMA CircuitTick == ASSUME IInv, Tick, NEW u \in URLs PROVE CircuitStep(u)
  <1>1. breakers[u] # NoBreaker => heap'[breakers[u]].state = heap[breakers[u]].state
    BY AgedFacts DEF Tick, IInv, TypeOK
  <1> QED BY <1>1 DEF Tick, CircuitStep, StateOf

\* Every step moves every circuit as promised.
LEMMA CircuitNext ==
  ASSUME IInv, [Next]_vars, NEW u \in URLs
  PROVE  CircuitStep(u)
  <1>1. ASSUME NEW d \in Deliveries, Step(d) PROVE CircuitStep(u)
    <2>1. CASE UNCHANGED <<breakers, heap>>
      BY <2>1, CircuitSame
    <2>2. CASE CreateBreaker(d) \/ Admit(d) \/ PostFails(d) \/ PostSucceeds(d)
      BY <2>2, CircuitCreate, CircuitAdmit, CircuitFails, CircuitSucceeds
    <2> QED BY <1>1, <2>1, <2>2
            DEF Step, LookupBreaker, SendPost, CreateRequestFails, PostRefused, Wake
  <1>2. ASSUME NEW e \in Events, ProcessEvent(e) \/ DeliverReturns(e) PROVE CircuitStep(u)
    BY <1>2, CircuitSame DEF ProcessEvent, DeliverReturns
  <1>3. CASE UNCHANGED vars
    BY <1>3, CircuitSame DEF vars
  <1> QED BY <1>1, <1>2, <1>3, CircuitTick DEF Next

\* An open circuit turns half-open only after openTimeout without a recorded
\* failure of the endpoint (breaker.go:62-67, 96).
THEOREM ProbesWait == Spec => ProbeOnlyWhenQuiet
  <1>1. IInv /\ [Next]_vars =>
          [\A u \in URLs : StateOf(u) = "open" /\ StateOf(u)' = "half-open" =>
             quiet[u] > OpenTimeout]_vars
    BY CircuitNext DEF CircuitStep
  <1> QED BY <1>1, InductiveInvariant, PTL DEF Spec, ProbeOnlyWhenQuiet

\* A circuit closes only after SuccessThresh successes with no failure between
\* them, so never from open and never on the strength of an earlier half-open
\* period (breaker.go:64-66, 80-87).
THEOREM CircuitCloses == Spec => ClosesAfterSuccesses
  <1>1. IInv /\ [Next]_vars =>
          [\A u \in URLs : StateOf(u) # "closed" /\ StateOf(u)' = "closed" =>
             okRun'[u] >= SuccessThresh]_vars
    BY CircuitNext DEF CircuitStep
  <1> QED BY <1>1, InductiveInvariant, PTL DEF Spec, ClosesAfterSuccesses

\* A delivery is dropped only by Allow.
LEMMA SkipsAreRefusals ==
  ASSUME IInv, [Next]_vars, NEW d \in Deliveries, pc[d] # "skipped", pc'[d] = "skipped"
  PROVE  Admit(d) /\ ~Allow(heap[ref[d]]).ok
  <1>1. ASSUME NEW e \in Events, ProcessEvent(e) \/ DeliverReturns(e) PROVE FALSE
    BY <1>1 DEF ProcessEvent, DeliverReturns
  <1>2. ASSUME NEW x \in Deliveries, Step(x), x # d PROVE FALSE
    <2>1. pc'[d] = pc[d]
      BY <1>2 DEF Step, LookupBreaker, CreateBreaker, Admit, SendPost, CreateRequestFails,
         PostFails, PostRefused, PostSucceeds, Wake, Retry, Settle, IInv, TypeOK
    <2> QED BY <2>1
  <1>3. ASSUME Step(d) PROVE Admit(d)
    BY <1>3 DEF Step, LookupBreaker, CreateBreaker, SendPost, CreateRequestFails,
       PostFails, PostRefused, PostSucceeds, Wake, Retry, Settle, IInv, TypeOK
  <1>4. CASE Tick \/ UNCHANGED vars
    BY <1>4 DEF Tick, vars
  <1>5. Admit(d)
    BY <1>1, <1>2, <1>3, <1>4 DEF Next
  <1>6. ~Allow(heap[ref[d]]).ok
    BY <1>5 DEF Admit, Settle, IInv, TypeOK
  <1> QED BY <1>5, <1>6

\* A delivery is dropped for an open circuit only if its endpoint failed within
\* the last openTimeout (dispatcher.go:82-88, breaker.go:62-69).
THEOREM DropsAreJustified == Spec => SkippedOnlyAfterFailure
  <1>1. IInv /\ [Next]_vars =>
          [\A d \in Deliveries : pc[d] # "skipped" /\ pc'[d] = "skipped" =>
             quiet[UrlOf(d)] <= OpenTimeout]_vars
    <2> SUFFICES ASSUME IInv, [Next]_vars, NEW d \in Deliveries,
                        pc[d] # "skipped", pc'[d] = "skipped"
                 PROVE  quiet[UrlOf(d)] <= OpenTimeout
      OBVIOUS
    <2>1. pc[d] \in Holding /\ ~Allow(heap[ref[d]]).ok
      BY SkipsAreRefusals DEF Admit, Holding
    <2>2. heap[ref[d]] \in Breaker /\ heap[ref[d]].sinceFailure = quiet[UrlOf(d)]
      BY <2>1, HeldBreaker DEF TracksHistory
    <2> QED BY <2>1, <2>2, AllowFacts
  <1> QED BY <1>1, InductiveInvariant, PTL DEF Spec, SkippedOnlyAfterFailure

-----------------------------------------------------------------------------
(* What EventsReturn rests on: a delivery runs once, and runs down.        *)

\* How many steps a delivery has left at most, when it stands at p and the loop
\* counter of Do is n; zero when it is over.
StepsLeft(p, n) ==
  CASE p = "lookup" -> 3 * MaxRetries + 3
    [] p = "create" -> 3 * MaxRetries + 2
    [] p = "admit" -> 3 * MaxRetries + 1
    [] p = "ready" -> 3 * (MaxRetries - n)
    [] p = "inflight" -> 3 * (MaxRetries - n) - 1
    [] p = "backoff" -> 3 * (MaxRetries - n) + 1
    [] OTHER -> 0

\* Do begins with attempt 0 and never waits for an attempt it will not make; the
\* goroutines of an event run between its taking up and its return.
LoopOK ==
  \A d \in Deliveries :
    /\ pc[d] = "admit" \/ pc[d] = "lookup" \/ pc[d] = "create" => attempt[d] = 0
    /\ pc[d] \in {"ready", "inflight", "backoff"} => attempt[d] < MaxRetries
    /\ stage[EventOf(d)] = "queued" => pc[d] = "idle" /\ attempt[d] = 0
    /\ pc[d] = "idle" => attempt[d] = 0
    /\ stage[EventOf(d)] = "returned" => pc[d] \in Settled

\* A delivery starts once, when its event is taken up; from then on each of its
\* steps leaves it fewer steps, and none begins after it is over.
RunsDown ==
  \A d \in Deliveries : pc'[d] # pc[d] =>
    \/ pc[d] = "idle" /\ stage[EventOf(d)] = "queued" /\ stage'[EventOf(d)] = "running"
    \/ /\ pc[d] \in Running
       /\ StepsLeft(pc'[d], attempt'[d]) < StepsLeft(pc[d], attempt[d])
       /\ StepsLeft(pc'[d], attempt'[d]) \in Nat

\* No goroutine outlives the ProcessEvent that started it.
NoneOutlives ==
  \A e \in Events : stage[e] = "returned" => \A r \in Regs : pc[<<e, r>>] \in Settled

\* A step of one goroutine: where it stands, and what Do counts.
LEMMA LoopStep ==
  ASSUME TypeOK, LoopOK, NEW d \in Deliveries, Step(d)
  PROVE  /\ pc[d] \in Running /\ pc'[d] # "idle"
         /\ StepsLeft(pc'[d], attempt'[d]) < StepsLeft(pc[d], attempt[d])
         /\ StepsLeft(pc'[d], attempt'[d]) \in Nat
         /\ pc'[d] \in {"lookup", "create", "admit"} => attempt'[d] = 0
         /\ pc'[d] \in {"ready", "inflight", "backoff"} => attempt'[d] < MaxRetries
  <1>1. /\ pc \in [Deliveries -> Settled \cup Running]
        /\ attempt \in [Deliveries -> 0 .. MaxRetries]
        /\ attempt[d] \in Nat /\ MaxRetries \in Nat \ {0}
    BY MaxRetriesType DEF TypeOK
  <1>2. /\ pc[d] \in {"lookup", "create", "admit"} => attempt[d] = 0
        /\ pc[d] \in {"ready", "inflight", "backoff"} => attempt[d] < MaxRetries
    BY DEF LoopOK
  <1>3. ASSUME NEW outcome \in {"skipped", "malformed", "accepted", "refused", "exhausted"},
               Settle(d, outcome)
        PROVE  pc'[d] = outcome /\ attempt'[d] = 0 /\ StepsLeft(pc'[d], attempt'[d]) = 0
    BY <1>1, <1>3 DEF Settle, StepsLeft
  <1>4. ASSUME Retry(d), pc[d] \in {"ready", "inflight"}
        PROVE  \/ /\ pc'[d] = "backoff" /\ attempt'[d] = attempt[d] + 1
                  /\ attempt[d] + 1 < MaxRetries
               \/ pc'[d] = "exhausted" /\ attempt'[d] = 0
    BY <1>1, <1>3, <1>4 DEF Retry
  <1>5. CASE LookupBreaker(d)
    <2>1. pc[d] = "lookup" /\ pc'[d] \in {"create", "admit"} /\ attempt'[d] = attempt[d]
      BY <1>1, <1>5 DEF LookupBreaker
    <2> QED BY <1>1, <1>2, <2>1 DEF StepsLeft, Running
  <1>6. CASE CreateBreaker(d)
    <2>1. pc[d] = "create" /\ pc'[d] = "admit" /\ attempt'[d] = attempt[d]
      BY <1>1, <1>6 DEF CreateBreaker
    <2> QED BY <1>1, <1>2, <2>1 DEF StepsLeft, Running
  <1>7. CASE Admit(d)
    <2>1. /\ pc[d] = "admit"
          /\ \/ pc'[d] = "ready" /\ attempt'[d] = attempt[d]
             \/ pc'[d] \in {"skipped", "malformed"} /\ attempt'[d] = 0
      BY <1>1, <1>7 DEF Admit, Settle
    <2> QED BY <1>1, <1>2, <2>1 DEF StepsLeft, Running
  <1>8. CASE SendPost(d)
    <2>1. pc[d] = "ready" /\ pc'[d] = "inflight" /\ attempt'[d] = attempt[d]
      BY <1>1, <1>8 DEF SendPost
    <2> QED BY <1>1, <1>2, <2>1 DEF StepsLeft, Running
  <1>9. CASE CreateRequestFails(d) \/ PostFails(d)
    <2>1. pc[d] \in {"ready", "inflight"} /\ Retry(d)
      BY <1>9 DEF CreateRequestFails, PostFails
    <2> QED BY <1>1, <1>2, <1>4, <2>1 DEF StepsLeft, Running
  <1>10. CASE PostRefused(d) \/ PostSucceeds(d)
    <2>1. pc[d] = "inflight" /\ pc'[d] \in {"refused", "accepted"} /\ attempt'[d] = 0
      BY <1>1, <1>10 DEF PostRefused, PostSucceeds, Settle
    <2> QED BY <1>1, <1>2, <2>1 DEF StepsLeft, Running
  <1>11. CASE Wake(d)
    <2>1. pc[d] = "backoff" /\ pc'[d] = "ready" /\ attempt'[d] = attempt[d]
      BY <1>1, <1>11 DEF Wake
    <2> QED BY <1>1, <1>2, <2>1 DEF StepsLeft, Running
  <1> QED BY <1>5, <1>6, <1>7, <1>8, <1>9, <1>10, <1>11 DEF Step

\* A step of one goroutine leaves the others and the events alone.
LEMMA OthersKept ==
  ASSUME TypeOK, NEW x \in Deliveries, Step(x)
  PROVE  /\ stage' = stage
         /\ \A d \in Deliveries \ {x} : pc'[d] = pc[d] /\ attempt'[d] = attempt[d]
  BY DEF Step, LookupBreaker, CreateBreaker, Admit, SendPost, CreateRequestFails,
         PostFails, PostRefused, PostSucceeds, Wake, Retry, Settle, TypeOK

LEMMA EventOfType ==
  ASSUME NEW d \in Deliveries
  PROVE  /\ EventOf(d) \in Events /\ d[2] \in Regs /\ d = <<EventOf(d), d[2]>>
  BY DEF EventOf, Deliveries

\* What any step does to one delivery.
LEMMA RunsDownStep ==
  ASSUME TypeOK, LoopOK, [Next]_vars
  PROVE  LoopOK' /\ RunsDown
  <1>1. ASSUME NEW x \in Deliveries, Step(x) PROVE LoopOK' /\ RunsDown
    <2>1. /\ stage' = stage
          /\ \A d \in Deliveries \ {x} : pc'[d] = pc[d] /\ attempt'[d] = attempt[d]
      BY <1>1, OthersKept
    <2>2. /\ pc[x] \in Running /\ pc'[x] # "idle"
          /\ StepsLeft(pc'[x], attempt'[x]) < StepsLeft(pc[x], attempt[x])
          /\ StepsLeft(pc'[x], attempt'[x]) \in Nat
          /\ pc'[x] \in {"lookup", "create", "admit"} => attempt'[x] = 0
          /\ pc'[x] \in {"ready", "inflight", "backoff"} => attempt'[x] < MaxRetries
      BY <1>1, LoopStep
    <2>3. stage[EventOf(x)] # "queued" /\ stage[EventOf(x)] # "returned"
      BY <2>2 DEF LoopOK, Running, Settled
    <2>4. RunsDown
      BY <2>1, <2>2 DEF RunsDown
    <2>5. ASSUME NEW d \in Deliveries
          PROVE  /\ pc'[d] = "admit" \/ pc'[d] = "lookup" \/ pc'[d] = "create" => attempt'[d] = 0
                 /\ pc'[d] \in {"ready", "inflight", "backoff"} => attempt'[d] < MaxRetries
                 /\ stage'[EventOf(d)] = "queued" => pc'[d] = "idle" /\ attempt'[d] = 0
                 /\ pc'[d] = "idle" => attempt'[d] = 0
                 /\ stage'[EventOf(d)] = "returned" => pc'[d] \in Settled
      <3>1. CASE d = x
        BY <2>1, <2>2, <2>3, <3>1
      <3>2. CASE d # x
        BY <2>1, <3>2 DEF LoopOK
      <3> QED BY <3>1, <3>2
    <2>6. LoopOK'
      BY <2>5 DEF LoopOK, EventOf
    <2> QED BY <2>4, <2>6
  <1>2. ASSUME NEW e \in Events, ProcessEvent(e) PROVE LoopOK' /\ RunsDown
    <2>1. /\ stage[e] = "queued" /\ attempt' = attempt
          /\ stage'[e] = IF GetByEvent(EventType[e]) = {} THEN "returned" ELSE "running"
          /\ \A f \in Events \ {e} : stage'[f] = stage[f]
          /\ \A d \in Deliveries : pc'[d] = IF EventOf(d) = e /\ d[2] \in Targets(e)
                                           THEN "lookup" ELSE pc[d]
      BY <1>2 DEF ProcessEvent, TypeOK
    <2>2. GetByEvent(EventType[e]) = {} => Targets(e) = {}
      BY DEF Targets
    <2>3. ASSUME NEW d \in Deliveries, EventOf(d) # e
          PROVE  pc'[d] = pc[d] /\ stage'[EventOf(d)] = stage[EventOf(d)]
      BY <2>1, <2>3, EventOfType
    <2>4. ASSUME NEW d \in Deliveries, EventOf(d) = e
          PROVE  /\ pc[d] = "idle" /\ attempt[d] = 0
                 /\ pc'[d] = "idle" \/ (pc'[d] = "lookup" /\ stage'[e] = "running")
                 /\ stage'[e] # "queued"
      BY <2>1, <2>2, <2>4 DEF LoopOK
    <2>5. RunsDown
      BY <2>1, <2>3, <2>4 DEF RunsDown
    <2>6. ASSUME NEW d \in Deliveries
          PROVE  /\ pc'[d] = "admit" \/ pc'[d] = "lookup" \/ pc'[d] = "create" => attempt'[d] = 0
                 /\ pc'[d] \in {"ready", "inflight", "backoff"} => attempt'[d] < MaxRetries
                 /\ stage'[EventOf(d)] = "queued" => pc'[d] = "idle" /\ attempt'[d] = 0
                 /\ pc'[d] = "idle" => attempt'[d] = 0
                 /\ stage'[EventOf(d)] = "returned" => pc'[d] \in Settled
      <3>1. CASE EventOf(d) = e
        BY <2>1, <2>4, <3>1 DEF Settled
      <3>2. CASE EventOf(d) # e
        BY <2>1, <2>3, <3>2 DEF LoopOK
      <3> QED BY <3>1, <3>2
    <2>7. LoopOK'
      BY <2>6 DEF LoopOK, EventOf
    <2> QED BY <2>5, <2>7
  <1>3. ASSUME NEW e \in Events, DeliverReturns(e) PROVE LoopOK' /\ RunsDown
    <2>1. /\ stage'[e] = "returned" /\ UNCHANGED <<pc, attempt>>
          /\ \A f \in Events \ {e} : stage'[f] = stage[f]
          /\ \A r \in Regs : pc[<<e, r>>] \in Settled
      BY <1>3 DEF DeliverReturns, TypeOK
    <2>2. \A d \in Deliveries : EventOf(d) = e => pc[d] \in Settled
      BY <2>1, EventOfType
    <2>3. \A d \in Deliveries :
             stage'[EventOf(d)] = stage[EventOf(d)] \/ (EventOf(d) = e /\ pc[d] \in Settled)
      BY <2>1, <2>2, EventOfType
    <2> QED BY <2>1, <2>3 DEF LoopOK, RunsDown, EventOf
  <1>4. CASE Tick \/ UNCHANGED vars
    BY <1>4 DEF Tick, vars, LoopOK, RunsDown
  <1> QED BY <1>1, <1>2, <1>3, <1>4 DEF Next

LEMMA LoopInvariant == Spec => []LoopOK
  <1>1. Init => LoopOK
    BY MaxRetriesType, EventOfType DEF Init, LoopOK, Settled
  <1> QED BY <1>1, TypeCorrect, RunsDownStep, PTL DEF Spec

\* A delivery is made once, and its steps are bounded by its schedule: each post
\* or wait brings it nearer to its end, whatever the other goroutines do.
THEOREM DeliveriesRunDown == Spec => [][RunsDown]_vars
  <1>1. TypeOK /\ LoopOK /\ [Next]_vars => [RunsDown]_vars
    BY RunsDownStep
  <1> QED BY <1>1, TypeCorrect, LoopInvariant, PTL DEF Spec

\* When ProcessEvent has returned, no goroutine of the event is left.
THEOREM NoGoroutineLeft == Spec => []NoneOutlives
  <1>1. LoopOK => NoneOutlives
    BY DEF LoopOK, NoneOutlives, Deliveries, EventOf
  <1> QED BY <1>1, LoopInvariant, PTL

=============================================================================
