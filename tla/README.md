# A verification project for CargoTrack

TLA+ modules for the parts of CargoTrack that keep state and share it between
processes, goroutines and requests; TLC runs over small instances of them; and
TLAPS proofs for every value of the constants. Paths are relative to the
repository; `streams.py` is `services/api/cargotrack/streams.py`.

## 1. The system and its components

CargoTrack is a Django API with a number of services around it. The table lists
what has state or ordering of its own; `PROJECT.json` lists every component, the
ones left out too, and every hazard at its line.

| component | state | operations | talks to | what is hard | what makes it correct |
|---|---|---|---|---|---|
| webhook dispatcher (Go) | map URL → circuit breaker, retry loops in goroutines | `ProcessEvent`, `Deliver`, `deliverOne`, `getBreaker`, `Allow`, `RecordSuccess/Failure`, `Do` | Kafka records in, HTTP posts out | goroutines of all events share the breakers; a breaker is asked once and the answer used for hours | one breaker per URL; it opens, probes, closes and drops only for what the endpoint answered; `Deliver` ends |
| event bus (`streams.py`) | Redis streams, one consumer group, its pending list; batches in the workers | `publish`, `run_consumer`, `_process_message` | every API app publishes; workers run handlers | takeover of idle messages, crashes, lost replies, trimming, failing handlers | at-least-once; no takeover from a live worker; all is resolved in the end |
| tracking ingest (Go) | buffer of events, flush signal, the batch under way | `handleEvent`, `Add`, `flushLoop`, `flushBatch`, `copyInsert`, `rowInsert` | devices in, TimescaleDB out | 202 before anything is stored; COPY then rows under one deadline; a ticker that also carries the signal | no event stored twice but for a lost answer; every acknowledged event stored, reported or lost with the process |
| payments (Django) | `Invoice`, `Payment` rows | `pay`, provider webhooks, `Invoice.save` numbering | six gateways, event bus | check, external call, write; early, late, duplicated webhooks; swallowed errors | paid once; PAID means charged; the event follows the state |
| GPS ingest and geofences (Rust) | two mirrored maps vehicle ↔ fences | main loop, `check_position`, `publish_geofence_event` | MQTT in, Kafka out | state moved before the publish; restart forgets | the two maps mirror each other; who reads the topic knows where a vehicle is, but for lost events and restarts |
| notifications (Go) | rate windows per user, deadline per event | `Allow`, `Dispatch`, provider `Send` | Kafka in, SMS/e-mail/push/USSD out | one deadline over all channels, a send that outlives its timeout | both limits hold; every preferred channel is tried |
| mobile offline queue (TS) | stored array of mutations, `isSyncing` | `enqueueMutation`, `syncOfflineQueue`, the NetInfo listener | API, AsyncStorage | load – await – save over one array; the app is killed; answers get lost | nothing queued is lost; order kept; repeats only where an answer was lost |
| web session (TS, Django) | token cookies; auth store and its copy in localStorage; `isRefreshing`, `pendingQueue` | `login`, `logout`, `restoreAccessToken`, `impersonate`, `stopImpersonating`, the 401 interceptor; the refresh, logout and impersonation views | route guards, every page's requests | many 401s at once, a refresh that fails, reloads and late answers, two identities in one cookie | every waiter is answered; the page shows the user the server answers for; given up means signed out |
| web chat view (TS, Django) | shown conversation, messages, socket, `activeIdRef` | `selectConversation`, `connectWs`, `sendMessage`, echoes; `ChatConsumer`, `MessageCreateView` | chat server by REST and socket | histories out of order, optimistic entries, lost sockets | the socket is of the conversation shown; no foreign message; a text shown once |
| web road map (TS) | route cache, slots, waiting calls; geometry per line; entities | `fetchRoadRoute`, `preloadRoutes`, `RoadRoute`, `load` of the live map | OSRM | a shared pool with retries, late answers, overlapping loads | no slot lost; a line draws its own pair; every call settles; cached routes reach the map |
| live alerts, navigation, mobile session (TS) | socket with a retry timer; role tables; tokens and lock state | `useWebSocket`, route guards, `security.ts` | – | mounted too early, links that bounce | findings only |
| accounts | failed attempts, lock time, backup codes | login, second factor | – | read-modify-write by concurrent requests | no lost increment; a code is used once |
| cold chain, marketplace, video calls, caches | rows with a status | short handlers | event bus | unlocked read-modify-write | – |

Interactions that matter to the models: the API's apps call `publish` after their
own write (a publish that fails is swallowed); workers run the registered handlers;
the webhook dispatcher gets its events from Kafka and knows the API's registrations
through a store. The web session, the chat view, the road map, the offline queue, tracking
ingest and the geofence detector share no state with each other.

## 2. Plan

In order of importance, and with the state of each:

1. **Webhook dispatcher** – `CircuitBreaker` (values and methods of a breaker),
   `WebhookDispatcher` (the goroutines; composes the breaker). *Done, proved.*
2. **Event bus** – `EventDelivery` (abstract: an at-least-once stream),
   `StreamConsumer` (Redis and the workers; refines it). *Done, proved.*
3. **Payments** – `Payments`: concurrent `pay` requests, the gateways, webhooks in any
   order through both endpoints, `publish` after the state change. *Done, proved.* Left:
   the numbering of invoices in `Invoice.save` (numbers compared as strings, a module of
   its own).
4. **Tracking ingest** – `EventStore` (abstract: received, acknowledged, stored, given up),
   `TrackingIngest` (buffer, flush loop, COPY with fallback, crash; refines it).
   *Done, proved.*
5. **Geofence detector** – `GeofenceDetector`: two mirrored maps, lost publishes,
   restarts. *Done, proved.*
6. **Clients** – `OfflineQueue`, `ChatView`, `RoadMap`, `WebSession`. *Done, proved.*
7. Next: abstract specifications of the offline queue and of the web session for the two
   to refine; the notification dispatcher with its rate limiter and deadline; chat edits
   and read receipts.

## 3. Modules

| module | models |
|---|---|
| `CircuitBreaker` | `circuitbreaker/breaker.go`: the breaker as a record, each method (all hold `cb.mu`) an operator |
| `WebhookDispatcher` | `dispatcher/dispatcher.go`, `retry/backoff.go`, `consumer/kafka.go:ProcessEvent`, the store's lookup |
| `MCWebhookDispatcher` | constants for TLC |
| `WebhookDispatcherProofs` | invariants and theorems of the dispatcher |
| `EventDelivery` | what `streams.py` promises, without consumers |
| `StreamConsumer` | `streams.py`: `publish`, `run_consumer`, `_process_message`, and Redis as they use it |
| `MCStreamConsumer` | constants for TLC |
| `StreamConsumerProofs` | invariants, theorems and the refinement proof |
| `Payments` | `payments/api_views.py` (`InvoicePayAPIView.post`, `_process_webhook`), `cargotrack/async_views.py:_process_webhook_sync`, the providers as the gateways' side |
| `MCPayments` | constants for TLC |
| `PaymentsProofs` | invariants and theorems of payments |
| `TrackingIngest` | `tracking-server/main.go`: `Add`, `flushLoop`, `flushBatch`, `copyInsert`, `rowInsert` |
| `EventStore` | what `main.go` promises to devices, without buffer, batches or transactions |
| `GeofenceDetector` | `gps-ingest/src/geofence/detector.rs`, the inner loop of `main.rs`, `publish_geofence_event` |
| `IngestProofs` | invariants and theorems of tracking ingest and of the detector; the refinement proof of the former |
| `OfflineQueue` | `mobile/lib/offlineSync.ts`, `useOfflineQuery.ts`, `useNetworkStatus.ts` |
| `OfflineQueueProofs` | invariants and theorems of the offline queue |
| `WebSession` | `web/src/api/client.ts`, `store/authStore.ts`, the guards in `App.tsx`; `auth_views.py`, `authentication.py` and the impersonation views as the server's side |
| `WebSessionProofs` | invariants and theorems of the session |
| `ChatView` | `web/src/hooks/useChat.ts`; `chats/consumers.py` and `chats/api_views.py` as the server's side |
| `ChatViewProofs` | invariants and theorems of the chat view |
| `RoadMap` | `web/src/lib/routing.ts`, `components/map/RoadRoute.tsx`, `load` in `pages/LiveMap.tsx` |
| `RoadMapProofs` | invariants and theorems of the road map |
| `MCWebClient` | session and chat view, one per behaviour, for TLC |
| `MCSideBySide` | road map, offline queue, session, tracking ingest and detector, one per behaviour, for TLC |

Definitions whose comment starts with *Mutant:* are plausible mistakes in the code,
used to see that a property notices them; no specification uses them.

### Webhook dispatcher

A delivery is a pair of a record and a registration; its `pc` says where its
goroutine stands: `lookup` and `create` are the two halves of `getBreaker` (read
lock, then write lock with a second look), `admit` the call of `Allow`, `ready` the
head of the loop body, `inflight` a post that was sent, `backoff` the wait. Breakers
are heap objects named by the delivery that allocated them, so that two allocations
for one URL would be seen.

Abstractions: `lastFailure` is kept as the time since it, up to "longer than
`openTimeout`". Payload, signature and headers are left out; that `json.Marshal` or
`http.NewRequest` fails is a property of the record or of the URL. A transport
error, the client's timeout and a status from 500 on do the same and are one action.
The history variables `failRun`, `okRun` and `quiet` record what the endpoint
answered, separately from the breaker's own fields; the properties compare the two.
`Deliver` is called with `context.Background()`, so the `ctx.Done()` branch of `Do`
is never taken, and `Do` stops at `len(schedule)`, so the exponential branch of
`Delay` is not reached. The Kafka group is a stub in the code (`Run` waits for a
signal): any event may be given to `ProcessEvent` at any time. A failing store is
not modelled: the store is in memory.

### Event bus

One stream stands for the four, which the loop body goes through one after the
other. An entry is its position. Redis is modelled from the calls `streams.py`
makes: `xadd` with an approximate `maxlen` (anything from nothing to all beyond the
newest `MaxLen` is trimmed), `xreadgroup '>'` (moves the cursor, adds to the pending
list), `xautoclaim` with the default start (the oldest idle entries; trimmed ones
leave the pending list), `xack`. Each Redis call and each handler run is a step.
Faults, bounded by `MaxFaults`: a call that raises before or after the server has
done its part, a handler that raises once, a worker that dies and is started again
under a new name. `Tick` lets time pass, also in the middle of a handler; the sleep
after a failure is part of the failing step, with ticks possible at any time around
it. `publish` that raises before the server has accepted the entry changes nothing
and is no step.

`RetryCount(i) == 0` is what `_get_retry_count` answers: the count is written to
the worker's copy of the message and never stored (finding below). The
dead-letter branch is in the model, guarded by it.

`EventDelivery` has accepted, expired, resolved and settled events; the refinement
mapping is `accepted <- Len(stream)`, `expired <- trimmed`, `resolved <- handled ∪
dead`, `settled <- delivered and no longer pending`.

### Payments

The settings have no `ATOMIC_REQUESTS`, so every ORM call commits by itself and a
request is a sequence of steps. A pay request: `CheckInvoice` (read the status),
`InitiatePayment` or `InitiateFails` (call the gateway; a lost reply looks like a
refusal although the charge was asked for), `CreatePayment` (write the row). A webhook
request: `Receive` (parse, look up the newest row with the reference), `SavePayment`,
`SaveInvoice`, `Invalidate` (the caches), `Publish`; `HandlerRaises` is the `except
Exception` that answers 200 all the same, `HandlerDies` a worker that dies and leaves
the gateway without an answer. The gateway reports an outcome until it is answered and
may report again or report earlier events (`NotifyAgain`, `NotifyProgress`).

Abstractions: a reference stands for provider and `provider_reference`; the constants
`StoredRef` and `CallbackRef` are what `initiate_payment` and `parse_webhook` read from
the gateway's messages, which for some providers are different fields, or the invoice's
number. Amounts, phone numbers, the raw payload and signatures are left out: a pay
request refused for its fields, or a callback refused for its signature, changes
nothing. Callbacks are taken as authentic: `Notify`, `NotifyAgain` and `NotifyProgress`
report what a gateway did with a charge that was asked for. The mobile-money webhooks
(`MpesaWebhookView`, `AirtelWebhookView`, `MTNWebhookView`, `payments/api_views.py:286-307`)
are `AllowAny` and check no signature, so there this is an assumption on who can reach
them, and `PaidMeansCharged` says nothing of a callback that is made up. `DeletePattern` says whether the cache backend has the method that
`invalidate_dashboard_caches` calls: django-redis has it, the backend that
`settings.py` names does not.

### Tracking ingest

`Add` under the lock and the rest of a request (signal, 202) are two steps, so that the
flush loop can come between. `Tick` puts a tick into the ticker's channel, `TakeBatch`
takes it together with a signal and the buffer; `CopyInsert`, `CopyFails`, `RowInsert` and
`RowsFail` end the two transactions, a failing one committed by the server or not, and
`expired` says that the 30 s both share are over. `IngestCrash` ends the process: it
handles no signals, so a new release does the same.

Abstractions: events are distinct and posted once; a batch is a set. A refused request
changes nothing. A tick that finds neither an event nor a signal changes nothing and is
left out. The chunks of `rowInsert` are in one transaction and so one step. The history
variables `reported` (the error log), `unanswered` (committed, but the client saw an
error) and `lost` (in memory at a crash) are what the properties compare the table with.

`EventStore` has events that are held, acknowledged, in the table so often, doubtful (the
answer that they were stored was lost) and gone (given up with a trace); the refinement
mapping is `held <- buf ∪ batch`, `rows <- table`, `doubtful <- unanswered`,
`gone <- reported ∪ lost`. Its one action `Store` stands for a COPY and for a fallback of
either outcome; a crash is a `Store` of nothing that gives up all that is held.

### Geofence detector

`CheckPosition(v, S)` is `check_position` for a position inside the polygons of `S`; its
events go to `outbox` and are published, or given up after 5 s (`PublishFails`, with or
without effect), before the next position: the loop awaits each. Within one position the
order of events is left open, as they are of different fences. `view` is what a consumer
of the topic knows; `doubtful` marks the pairs of vehicle and fence for which an event was
lost, `forgotten` those whose vehicle was inside at a restart. `ConsumersAgree` says what
either can do to a consumer, and that the next event published for the pair heals it. Which polygon contains a point is not computed.

### Offline queue

The queue is one value in AsyncStorage. `EnqueueRead` and `EnqueueWrite` are the two awaits
of `enqueueMutation`; `NetInfoConnected` starts a sync, which reads the queue, replays it
request by request and writes back what failed (`SyncDone`). A request of a sync fails
with or without effect on the server. `Kill` ends the app between any two steps.
Read-modify-writes of the queue may overlap; the code has no guard against that (see the
findings), and the properties hold for all these behaviours. `exposed` is the set of
mutations queued during a sync or beside another enqueue: only those may be overwritten
(`NothingLost`). `repeatable` has those carried out whose answer, or whose removal from the
queue, was lost, or which an enqueue put back: only those are carried out twice. Mutations are numbered in the order in which they are made.
The hooks are the library's interface; no screen calls them yet.

### Web session

`jar` is the browser's cookies, `store` the persisted part of the auth store, `flight` the
cookies each call in flight was sent with. An answer is one step: the server's handler, its
`Set-Cookie` and the code that awaits it (`login` is two calls, hence two steps). The
interceptor is followed line by line: `Unauthorized` (reject, queue, or refresh),
`RefreshOk`, `RefreshFailed`, `GiveUpAnswered`. `LoadPage` is a reload: the memory goes,
cookies and localStorage stay, `AuthRestorer` asks for a token. The guards are `Shown`.

Abstractions: a call that was sent with a live access cookie is authenticated (it takes
15 s at most, the cookie lives for an hour). Pages are `landing`, `login` and the rest
(`app`). At most `MaxInFlight` calls of the user's are open at a time; the page's own calls
are not counted. `crossed` records that two calls which change cookies or store were out
at once, or that a login ended half way: in those behaviours the store may name another
user than the cookies (see the findings), and `StoreAgreesWithCookies` and
`GivenUpIsSignedOut` leave them out. What is covered is everything that comes between calls
sent one at a time: expiry, refreshes, failures, reloads and signing out.

### Chat view

`log` is the server's messages in the order of their ids, `selects` the histories under way,
`up` and `down` the two directions of the socket, `posts` and `answers` the REST texts. A
message is stored in one step (`TextStored`, `StrayStored`, `PostStored`, `OtherStores`) and
sent to the group in another (`TextEchoed`, `Echo`), as in `consumers.py:80-81` and
`chats/api_views.py:87-97`, so that a history can be read between the two, and messages of
several consumers reach the socket in any order. `handling` is the text the socket's own
consumer is at; `stray` counts those that earlier sockets may still store.

A socket is open as soon as the consumer has accepted it, which comes before anything else:
`joining` while `connect()` goes on with a valid token, `anonymous` without one, `joined` to
the group afterwards. An anonymous one refuses texts (`TextRefused`, counted in `refused`)
until a token has come up; the text that was refused is not sent again.

Abstractions: the user's own texts are always the same, and `alike` messages of others are
too, so that an echo may replace any optimistic entry; nobody's sender is looked at, as in
the code. A broken socket loses what is on its way down and any of what is on its way up; a
`group_send` that raises reaches nobody, but no event is lost between a group and a socket
that has joined it and stays. One history request per conversation is out at a time (a
bound).

### Road map

A call of `fetchRoadRoute` is a record with its pair, attempt and stage: `waiting` for a
slot, `fetching`, in the `pause` before the second attempt, `settled`. `Released` and
`ReleaseSlot` are the two sides of a hand-over in `releaseSlot`. A line takes the answer
of the call of its current effect (`effect`), which stands for the `cancelled` flag of the
closure. `ShowLine` is the render with a new pair and `RunEffect` the effect that follows it:
in between the line is in `due` and may be drawn once with the geometry of the earlier pair,
so `LineDrawsItsPair` is about the lines whose effect has run. `batches` are the preloads whose continuation has not run yet. Positions,
progress and the 10 s and 2 s timers themselves are left out: a fetch may fail at any time.

## 4. Runs

| run | instance | shows |
|---|---|---|
| `webhook` | three events for one endpoint, thresholds 2 and 2, three attempts | `TypeOK`, `SharedBreaker`, `FailingIsNotClosed`, `ProbeOnlyWhenQuiet`, `ClosesAfterSuccesses`, `SkippedOnlyAfterFailure` |
| `webhook_returns` | four events, three registrations, two endpoints: malformed data, an endpoint no request can be made for, an inactive registration, an event nobody subscribed to | `EventsReturn` |
| `webhook_open` | as `webhook` | *violated*: `NoRetryWhileOpen` |
| `streams` | two workers, batches of two, two events, two faults, only the newest event kept | `TypeOK`, `OverlapOnlyAfterTimeout`, refinement `AtLeastOnce` |
| `streams_settle` | two workers, batches of one, two events, one fault | `EventuallyResolved` |
| `streams_dead_letter` | one worker, one event | *violated*: `FailedIsDeadLettered` |
| `streams_block` | one worker, batches of one, two events, one fault | *violated*: `FailingDoNotBlock` |
| `payments` | two attempts for one invoice with one reference, two web workers, two extra callbacks, one exception, one crash, a cache backend with `delete_pattern` | `TypeOK`, `PaidMeansCharged`, `AnnouncedIsPaid`, `ChargedBecomesPaid` |
| `payments_announced` | the same without extras or faults, with the configured backend | *violated*: `ProcessedIsAnnounced` |
| `web_client` | session: two administrators, one page request, two of the user's calls at a time; chat: two conversations, two messages | `WebTypeOK`, `NoWaiterForgotten`, `StoreAgreesWithCookies`, `GivenUpIsSignedOut`; `ChatTypeOK`, `SocketIsOfTheShown`, `NoForeignMessage`, `TextShownOnce` |
| `web_refresh` | one user who logs in and reloads | *violated*: `RefreshCookieIsUsable` |
| `side_by_side` | road map: one line, one load of two pairs, two slots, three calls; queue: three mutations, room for two; session: one administrator; ingest: two events, batches of two, one crash; detector: one vehicle, two fences | `RoadTypeOK`, `SlotsAccounted`, `LineDrawsItsPair`, `EveryCallSettles`, `CachedRouteReachesTheMap`; `QueueTypeOK`, `StoredInOrder`, `NothingLost`, `RepeatsExplained`, `SyncEnds`; `EveryRequestSettles`, `LandingOpens`; `IngestTypeOK`, refinement `IngestIsStore`, `AckedIsSettled`; `FenceTypeOK`, `ConsumersAgree` |

**Bounds.** Three deliveries with three attempts each give nine answers: enough to
open the circuit (2), probe, have the half-open period cut short after one success,
probe again and close (2). Two of them race for the breaker, the third finds it. In
`streams` two events with a retention of one make trimming hit undelivered, pending
and in-hand entries; two faults allow a crash followed by a second failure during
the takeover; two workers are the least that can overlap, and a timeout of two ticks
tells "idle" from "idle long enough". In `payments` two attempts are the least that can
share a reference or be charged twice, two workers the least that can race, and one
crash with two extra callbacks allows a request to die half way, be repeated, and be
overtaken by a late report of something else.

`web_client` and `side_by_side` hold several components that share nothing. The variable
`focus` picks one per behaviour and the others keep their initial state, so that their
state spaces add up instead of multiplying, and a property of one says the same as in a
run of its own. The initial states of the components that are not in focus enable none of
their fair actions, so no fairness condition makes a behaviour of another component
impossible. Two users are the least whose sessions can be mixed up, two calls the least
that can meet one refresh; two conversations and two messages let a history arrive late
with an echo under way. In the road map three calls compete for two slots, each with a
retry, and a line may show a pair that a preload is fetching. Three mutations with room
for two drop one at the cap while another is replayed. One event stays in the buffer while
the other is in a failing batch.

The proofs remove the bounds for every safety property of the dispatcher, the bus,
payments, tracking ingest, the detector and the four clients.

**Symmetry** is used for interchangeable events (`webhook`) and workers (`streams`),
in runs without liveness properties.

**Fairness.** Dispatcher: weak fairness of each delivery's steps (the Go scheduler;
the HTTP client has a timeout of 30 s, so a request ends), of the return of
`Deliver`, and of time. No fairness says *how* a request ends or that an event is
taken up. Bus: weak fairness of each worker's own steps and of time; none for
publishers or faults. `EventuallyResolved` is stated for behaviours in which no
handler fails each time it runs; `FailingDoNotBlock` is the same without that
condition, and fails. Payments: weak fairness of each webhook request and of the
gateway's report of an outcome nobody has answered (an assumption on the gateways, that
they repeat an unanswered callback); none for payers, pay requests, exceptions or
crashes. `ChargedBecomesPaid` asks for behaviours without a swallowed exception and
for charges whose row the callback can find: without either the code loses the charge.
Road map: fetches end (their own timeout), retry timers fire, a settled preload
continues; nobody has to open a map. Offline queue: requests of a sync end (15 s), writes of
the storage do. Session: every call through `apiClient`, and the refresh, is answered or
times out after 15 s, and a page that was told to leave is left; nobody clicks and no cookie
has to expire. The sign-out after a failed refresh is a bare `axios.post` (`client.ts:120`)
without a timeout, so no fairness makes it end: `EveryRequestSettles` is stated for behaviours
in which it is never out for good, `[]<>~Out("giveup")`; in the others requests do wait for
ever (see the findings). Tracking ingest: the ticker ticks,
the loop takes the ticks, both inserts end by their deadline; none has to succeed, no
request has to come. The detector and the chat view have no liveness property: a position
or a text may be lost for good.

**Deadlock** is checked for the dispatcher and the bus, where time can always pass, so it
says little and liveness stands in for it. It is off for payments, which come to rest
when every request of the instance has ended, and for the runs of several components, where
bounds on calls, messages and mutations do the same.

## 5. What the violations show

* `webhook_open`: `breaker.go` says an open circuit rejects requests immediately;
  `Allow` is asked once per delivery (`dispatcher.go:82`), so retries are posted while
  the circuit is open, and each failure renews `lastFailure`.
* `streams_dead_letter`: `_set_retry_count` (`streams.py:181`) changes a local dict.
  No message is ever dead-lettered; failing ones are retried for as long as they are
  retained.
* `streams_block`: such messages stay at the head of the pending list and
  `xautoclaim` always starts there. The time the counterexample needs between two
  claims is real: four streams, ten messages each, two seconds of sleep per failure
  are 80 s, and `CLAIM_TIMEOUT` is 60 s.

* `payments_announced`: `cache.delete_pattern` does not exist in the configured cache
  backend, so every webhook handler raises after it has saved the invoice, and
  `payment.received` is never published. With it the same helper makes handlers of the
  event bus fail each time they run, which is what fills the pending list in
  `streams_block`.

* `web_refresh`: `set_jti` gives the token a new identity before `blacklist` is called
  (`auth_views.py:139` and `144`), so the token put into the cookie is the one revoked. A
  user who reloads the page twice within a session is signed out.

Divergences from the documents that need no run are listed under `findings`: the
"exactly one worker" of `stream_worker.py`, the dead-letter queue and the first and
last entries of the retry schedule in `docs/webhook-events.md`, the asynchronous
webhook endpoint that never publishes, the second charge that the check for PAID
does not prevent, the refresh and logout views that ask for the access token they are to
replace, the flush that is never early, what overlapping writes do to the offline queue,
the redirect that waits for a sign-out without a timeout, the texts a chat socket refuses and
never gets again, the echo that takes the entry of another's text, the messages between a
history and its socket, and what was met in the clients while reading: the late answers of
the chat view, alerts that never connect after a reload, the session timeout of the mobile app, menu entries
that bounce.

## 6. Proofs

`WebhookDispatcherProofs`, from `BreakerAssumption` (thresholds positive, timeout a
natural number) and `DispatcherAssumption` (types of the constants, at least one
attempt, `NoBreaker` is no delivery):

* `TypeCorrect`, `OneBreakerPerURL`, `CircuitOpens` are the invariants of the run;
  `ProbesWait`, `CircuitCloses`, `DropsAreJustified` the action properties.
* The inductive invariant says in addition that the breaker in the map of a URL was
  allocated by a delivery to that URL (else two URLs could share one and an answer of
  one would change the other), and that the breaker's fields agree with the history:
  `failureCount` is the number of failures recorded since the last success,
  `sinceFailure` the time since the last one, the success count of a half-open
  breaker is at most the successes in a row, and a closed breaker has fewer failures
  than the threshold.
* `DeliveriesRunDown` and `NoGoroutineLeft` are what `EventsReturn` rests on: `StepsLeft`, a
  bound on the steps a delivery has left, falls with each of them whatever the endpoint and
  the other goroutines do, and a `ProcessEvent` that has returned has left none behind.
  They need `LoopOK`: the attempts counted stay below the schedule's length where `Do` goes on.

`StreamConsumerProofs`, from `StreamAssumption` (positive batch size, timeout and
retention):

* `TypeCorrect`, `NoEarlyTakeover` (`OverlapOnlyAfterTimeout`) and
  `BusIsAtLeastOnce`, the refinement `Spec => Delivery!Spec` step by step.
* The inductive invariant adds `AckResolved` (a worker about to acknowledge has its
  message handled or dead-lettered, which makes `Ack` a step of the abstract
  `Settle`) and `HeldCovers` (no message in hand has been idle for longer than its
  worker has been in the loop body), without which `AutoClaim` could not be shown to
  spare the messages of a worker that keeps up.
* `BusDropsNothing`: an event that the group has settled was resolved or has expired. It is
  proved of `EventDelivery`, where it is inductive by itself, and carried over by the
  refinement: the part of `EventuallyResolved` that is safety.

`PaymentsProofs`, from `PaymentsAssumption` (types of the constants) and
`ReferenceAssumption` (a reference in a callback is never one stored for another
invoice; the providers send the gateway's own identifier or the invoice's number):

* `TypeCorrect`, `PaidInvoicesWereCharged`, `AnnouncementsAreTrue` are the invariants of
  the run.
* The inductive invariant adds what a webhook request carries from step to step:
  the row it found has the reference its callback names (with `ReferenceAssumption`:
  belongs to the invoice that was charged), what it reports as charged was charged, and
  the invoice is PAID once it is past saving it. A charge is asked for once, which keeps
  "charged" stable.
* `AnswersAreNotEarly` is the safety core of `ChargedBecomesPaid`: the gateway repeats a
  callback only until it is answered, so the answer to a charge whose row was found must not
  come before the invoice is PAID, unless an exception was swallowed. It needs
  `OutcomesReported`: an answer under way for a finished charge is about its outcome.

`IngestProofs`, tracking ingest from `IngestAssumption` (positive batch size), the detector
without assumptions:

* `IngestTypeCorrect`, `EventsStoredOnce` (`StoredOnce`), and `NoSilentLoss`, the safety
  core of `AckedIsSettled`: an acknowledged event is always in the buffer, in the batch, in
  the table, reported or lost with the process.
* The inductive invariant (`StoringInv`) ties memory to the table: what is in the buffer has
  no row; a batch at COPY has none; a batch at the fallback has a row only if COPY was
  committed, and then either the deadline is over, which keeps the fallback from storing
  it again, or the event is `unanswered`.
* `IngestRefinesStore`: each step of the service is a step of `EventStore` or none
  (`IngestStepRefines`). It needs `StoringInv` at COPY and at the fallback, where the
  abstract `Store` asks that an event has no row, or one that is doubtful.
* `FenceTypeCorrect`, `MapsMirrored` (the two maps of the detector are inverse to each
  other), `ConsumersKnow` (`ConsumersAgree`).
* `ConsumersAgree` alone is not inductive: it says nothing of a pair whose event is still
  in the outbox. `Telling` says that such an event tells the truth, `Known` that the
  detector's own map has a vehicle in a fence only where its last position was inside, and
  lacks one that is inside only where a restart forgot it.

`OfflineQueueProofs`, from `QueueAssumption` (a positive cap; `Nothing` is no sequence):

* `QueueTypeCorrect`, `QueueStoredInOrder`, `QueueLosesNothing`, `QueueRepeatsExplained`.
* The inductive invariant has the order of everything that can still be written:
  `InOrder` (`stored`, each queue read by an enqueue, and `remaining` followed by
  `syncing`), `Unmade` and `Unwritten` (a mutation that was not made yet was not carried out,
  one that is still being queued waits nowhere), and what makes overlaps harmless:
  `InEveryCopy` (an accepted mutation that is not exposed is in each copy of the queue that
  may still be written, the stored one, those read by enqueues, and what a sync has left,
  unless it was carried out or dropped at the cap), and `WaitingKnown` (one that still waits
  although it was carried out is `repeatable`).

`ChatViewProofs`, from `ChatAssumption` (`NoConversation` is no conversation and no
number):

* `TypeCorrect`, `SocketFollowsTheView` (`SocketIsOfTheShown`), `ViewNeverMixed`
  (`NoForeignMessage`), `EchoReplacesItsEntry` (`TextShownOnce`).
* The inductive invariant adds `SocketInOrder` (no optimistic entry while the socket
  connects, only its joined consumer stores a text, events come over an open socket only), `Stored` (every id the client
  holds, or is being sent, is that of a stored message, those on the socket of its
  conversation, those in REST answers of REST messages) and `HandlingIsNew` (the text the
  consumer is at has been seen by nobody yet: a history that contains it comes with a socket
  of its own).
* `TextShownOnce` has two halves (`TwoHalves`): `NoIdTwice`, and `Covered`, a count: the
  optimistic entries are at most `Due`, the texts to be stored, at hand, on their way back and
  refused. A step that takes something from `Due` must take an entry away or put something
  else in. No order of the ids is assumed. The steps are grouped by what they touch: calls
  only, the end of a socket, quiet steps of a socket, a new entry, a stored message, an echo.

`RoadMapProofs`, from `RoadAssumption` (a positive pool, loads list pairs, `NoPair` is no
pair):

* `RoadTypeCorrect`, `EverySlotAccounted` (`SlotsAccounted`), `LineDrawsRight`
  (`LineDrawsItsPair`).
* `SlotsAccounted` carries the type invariant: that `inFlight` stays a natural number when
  a slot is released follows only from its being the number of fetches. The one
  strengthening is `EffectIsOfTheLine`: the call a line listens to is one for the pair it
  is mounted with, unless its effect is due, which a call that changed its pair or was
  forgotten would break (`CallsKept`).
* `PoolNeverStalls`, `CallsRunDown` and `PreloadsAwaitCalls` are the safety cores of
  `EveryCallSettles` and `CachedRouteReachesTheMap`: beside an unsettled call there is one
  whose fetch or timer will end (a queue with every slot free would need a slot counted
  twice, which `SlotsAccounted` excludes), each step of a call lowers `Distance`, and a
  preload waits only for calls that were made.

`WebSessionProofs`, from `WebAssumption` (administrators are users, the bound on calls is a
natural number) and `WebNames` (a page's request is none of the named calls, and `None` is
no call and no cookie):

* `WebTypeCorrect`, `NobodyForgotten` (`NoWaiterForgotten`), `StoreIsOfTheCookies`
  (`StoreAgreesWithCookies`), `GivenUpStaysSignedOut` (`GivenUpIsSignedOut`).
* `StoreAgreesWithCookies` speaks of a page at rest, so it is not inductive: the calls under
  way decide what the page will show. `WebInv` adds, for every behaviour, who holds the
  refresh (`Refresher`), that the second call of a login carries a user's own token and so
  is never refused (`LoginAwaits`), and that the application is shown to the signed-in only
  (`AppIsSignedIn`); and until two answers have crossed (`Calm`), that one call of those
  which change the session is out at a time (`Alone`), that the cookies have not changed
  hands since it was sent (`SentAsNow`), that what `login` and `impersonate` remember is the
  cookies' user (`SignedInCalls`), that the store agrees with the cookies whoever else is
  waiting (`Agreement`), and that a session given up is not restored (`GivenUp`).
* `OneRefreshAtATime`, `NoWaitWithoutAnswer` and `LandingAwaitsAnAnswer` are what
  `EveryRequestSettles` and `LandingOpens` rest on: `isRefreshing` is set exactly while a
  refresh or the sign-out after it is out, an open request has an answer due, and so has
  the spinner of the landing page. `NoWaitWithoutAnswer` does not say that the answer comes:
  of that sign-out nothing does, which is what `EveryRequestSettles` assumes.

**Only model-checked:** the liveness properties `EventsReturn`, `EventuallyResolved`,
`ChargedBecomesPaid`, `EveryCallSettles`, `CachedRouteReachesTheMap`, `SyncEnds`,
`EveryRequestSettles`, `LandingOpens` and `AckedIsSettled`, and the violations. Of all but
`SyncEnds` the parts that are safety are proved as said above; what is left to TLC is the
step from there to "eventually", which needs ENABLED and fairness. The other properties of
the passing runs are all theorems.

## 7. Not modelled

Invoice numbering, notifications, account lockout, caches, cold chain and the chat
server's call status are left for later. In the modelled components: registration and the
second factor of a login, the chat view's typing, receipts, edits and uploads, and the MQTT
connection of GPS ingest.

Most of the repository's lines are TypeScript, and most of those are screens: some ninety
pages and components that load a list, render it, and post a form. They keep no state that
outlives a call or that another part reads, so there is nothing to check beyond the
rendering, and only `useChat.ts`, `client.ts`, `authStore.ts`, `routing.ts`, `offlineSync.ts`
and the few screens that call them are in the models. The server side and the services, in
Python, Go and Rust, are where most of the modelled behaviour is. Two clients with state were
read and left out: live alerts (`useWebSocket.ts`) and the mobile session (`security.ts`,
`lib/api.ts`); what was found in them is under `findings`.

Left out for good: signing and protocol decoders (pure functions on bytes), ML
predictions, route, fuel and container optimisers (floating point), the workflow engine
and EDI service (the state is in Camunda and Camel), the Phoenix gateway (relays only),
and the rendering of the user interfaces.
