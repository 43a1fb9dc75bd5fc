--------------------------- MODULE StreamConsumer ---------------------------
(***************************************************************************)
(* The Redis Streams event bus of the API                                  *)
(* (services/api/cargotrack/streams.py): publish, and any number of        *)
(* stream_worker processes running run_consumer on one consumer group.     *)
(*                                                                         *)
(* One stream stands for the four: a worker's loop body treats them alike, *)
(* one after the other.  An entry is named by its position in the stream.  *)
(* What Redis does (the stream, the group's cursor and its pending list)   *)
(* is modelled from the calls streams.py makes; the rest is the loop of    *)
(* run_consumer, one action per Redis call or handler call, since another  *)
(* worker, a crash or a Redis error can come between any two of them.      *)
(***************************************************************************)
EXTENDS Naturals, Sequences

CONSTANTS
  Workers,       \* the stream_worker processes
  BatchSize,     \* count= of xreadgroup and xautoclaim
  MaxRetries,    \* MAX_RETRIES
  ClaimTimeout,  \* CLAIM_TIMEOUT, in clock ticks
  MaxLen,        \* maxlen= of xadd
  MaxPublished,  \* bound: events published in a behaviour
  MaxFaults      \* bound: Redis errors, transient handler failures and crashes

ASSUME StreamAssumption ==
  /\ BatchSize \in Nat \ {0}
  /\ MaxRetries \in Nat
  /\ ClaimTimeout \in Nat \ {0}
  /\ MaxLen \in Nat \ {0}
  /\ MaxPublished \in Nat
  /\ MaxFaults \in Nat

\* What the consumer makes of an event: its handler can complete, its handler
\* raises whenever it runs (say, a notification for a user who was deleted), or
\* no handler is registered for its event_type.
Kinds == {"good", "poison", "unknown"}

Ids == 1 .. MaxPublished

Idle == 0 .. ClaimTimeout

VARIABLES
  stream,    \* the events accepted by xadd, by position
  trimmed,   \* the positions up to this one were trimmed by maxlen
  cursor,    \* last-delivered-id of the group
  pel,       \* the group's pending entries: delivered, not acknowledged
  idle,      \* per entry: time since it was last delivered
  pc,        \* per worker: where its loop body stands
  batch,     \* per worker: the messages of results it has still to go through
  handled,   \* the entries _process_message has answered True for
  dead,      \* the entries copied to the dead-letter stream
  faults,    \* faults so far
  failures,  \* history: per entry, failed runs of its handler
  held       \* history: per worker, time since its loop body began

redis == <<stream, trimmed, cursor, pel, idle>>
vars == <<stream, trimmed, cursor, pel, idle, pc, batch, handled, dead, faults,
          failures, held>>

Later(t) == IF t < ClaimTimeout THEN t + 1 ELSE t

Init ==
  /\ stream = << >>
  /\ trimmed = 0
  /\ cursor = 0
  /\ pel = {}
  /\ idle = [i \in Ids |-> 0]
  /\ pc = [w \in Workers |-> "read"]
  /\ batch = [w \in Workers |-> << >>]
  /\ handled = {}
  /\ dead = {}
  /\ faults = 0
  /\ failures = [i \in Ids |-> 0]
  /\ held = [w \in Workers |-> 0]

-----------------------------------------------------------------------------
\* publish: xadd appends and trims, approximately, to maxlen.  A publish whose
\* xadd raises changes nothing here, or was accepted with its reply lost.
Publish(k) ==
  /\ Len(stream) < MaxPublished
  /\ stream' = Append(stream, k)
  /\ \E t \in trimmed .. Len(stream') :
        /\ t = trimmed \/ t + MaxLen <= Len(stream')
        /\ trimmed' = t
  /\ UNCHANGED <<cursor, pel, idle, pc, batch, handled, dead, faults, failures, held>>

-----------------------------------------------------------------------------
Smaller(a, b) == IF a < b THEN a ELSE b
Larger(a, b) == IF a < b THEN b ELSE a

\* The last entry xreadgroup delivers next: it skips what was trimmed.
ReadUpTo == Smaller(Len(stream), Larger(cursor, trimmed) + BatchSize)

\* xreadgroup at the server: new entries, in order, become pending.
Deliver ==
  LET from == Larger(cursor, trimmed)
  IN  /\ cursor' = IF ReadUpTo > from THEN ReadUpTo ELSE cursor
      /\ pel' = pel \cup (from + 1 .. ReadUpTo)
      /\ idle' = [i \in Ids |-> IF i \in from + 1 .. ReadUpTo THEN 0 ELSE idle[i]]
      /\ UNCHANGED <<stream, trimmed>>

\* Mutant: the messages are paired with the positions after their own.
ReadGroupOffByOne(w) ==
  /\ pc[w] = "read"
  /\ Deliver
  /\ batch' = [batch EXCEPT ![w] =
                 [j \in 1 .. ReadUpTo - Larger(cursor, trimmed) |-> Larger(cursor, trimmed) + j + 1]]
  /\ pc' = [pc EXCEPT ![w] = "claim"]
  /\ held' = [held EXCEPT ![w] = 0]
  /\ UNCHANGED <<handled, dead, faults, failures>>

\* The loop body begins: results is what xreadgroup answers.
ReadGroup(w) ==
  /\ pc[w] = "read"
  /\ Deliver
  /\ batch' = [batch EXCEPT ![w] =
                 [j \in 1 .. ReadUpTo - Larger(cursor, trimmed) |-> Larger(cursor, trimmed) + j]]
  /\ pc' = [pc EXCEPT ![w] = "claim"]
  /\ held' = [held EXCEPT ![w] = 0]
  /\ UNCHANGED <<handled, dead, faults, failures>>

Fault == faults < MaxFaults /\ faults' = faults + 1

\* The rest of results is given up: the loop body ends.
LeaveLoop(w) ==
  /\ batch' = [batch EXCEPT ![w] = << >>]
  /\ pc' = [pc EXCEPT ![w] = "read"]

\* xreadgroup raises after the server has delivered.
ReadReplyLost(w) ==
  /\ pc[w] = "read"
  /\ Fault
  /\ Deliver
  /\ UNCHANGED <<pc, batch, handled, dead, failures, held>>

\* The pending entries xautoclaim may take, whoever has them.
Claimable == {i \in pel : idle[i] >= ClaimTimeout}

\* s lists the first members of S, as many as a batch holds, in order.
FirstOf(S, s) ==
  /\ \A j, k \in 1 .. Len(s) : j < k => s[j] < s[k]
  /\ \A i \in S : (\E j \in 1 .. Len(s) : s[j] = i) \/ (\A j \in 1 .. Len(s) : s[j] < i)
  /\ Len(s) < BatchSize => \A i \in S : \E j \in 1 .. Len(s) : s[j] = i

\* xautoclaim at the server takes the entries s, of which the first m were
\* trimmed: those leave the pending list, the others are delivered again.
Claim(s, m) ==
  /\ \A j \in 1 .. Len(s) : j <= m <=> s[j] <= trimmed
  /\ pel' = pel \ {s[j] : j \in 1 .. m}
  /\ idle' = [i \in Ids |-> IF \E j \in 1 .. Len(s) : s[j] = i THEN 0 ELSE idle[i]]
  /\ UNCHANGED <<stream, trimmed, cursor>>

\* Mutant: what was claimed does not join results.
AutoClaimIgnored(w) ==
  /\ pc[w] = "claim"
  /\ \E n \in 0 .. BatchSize : \E s \in [1 .. n -> Claimable] : \E m \in 0 .. n :
        FirstOf(Claimable, s) /\ Claim(s, m)
  /\ pc' = [pc EXCEPT ![w] = "work"]
  /\ UNCHANGED <<batch, handled, dead, faults, failures, held>>

\* Mutant: entries are claimed however recently they were delivered.
AutoClaimAtOnce(w) ==
  /\ pc[w] = "claim"
  /\ \E n \in 0 .. BatchSize : \E s \in [1 .. n -> pel] : \E m \in 0 .. n :
        /\ FirstOf(pel, s)
        /\ Claim(s, m)
        /\ batch' = [batch EXCEPT ![w] = @ \o SubSeq(s, m + 1, n)]
  /\ pc' = [pc EXCEPT ![w] = "work"]
  /\ UNCHANGED <<handled, dead, faults, failures, held>>

\* xautoclaim: entries idle for CLAIM_TIMEOUT join results.
AutoClaim(w) ==
  /\ pc[w] = "claim"
  /\ \E n \in 0 .. BatchSize : \E s \in [1 .. n -> Claimable] : \E m \in 0 .. n :
        /\ FirstOf(Claimable, s)
        /\ Claim(s, m)
        /\ batch' = [batch EXCEPT ![w] = @ \o SubSeq(s, m + 1, n)]
  /\ pc' = [pc EXCEPT ![w] = "work"]
  /\ UNCHANGED <<handled, dead, faults, failures, held>>

\* xautoclaim raises, which is ignored; the server may have claimed.
AutoClaimFails(w) ==
  /\ pc[w] = "claim"
  /\ Fault
  /\ \/ UNCHANGED redis
     \/ \E n \in 0 .. BatchSize : \E s \in [1 .. n -> Claimable] : \E m \in 0 .. n :
          FirstOf(Claimable, s) /\ Claim(s, m)
  /\ pc' = [pc EXCEPT ![w] = "work"]
  /\ UNCHANGED <<batch, handled, dead, failures, held>>

-----------------------------------------------------------------------------
\* _get_retry_count: the message as Redis delivers it is the one publish wrote,
\* without _retry_meta; _set_retry_count changes the worker's copy only, which
\* is dropped with the end of the iteration.
RetryCount(i) == 0

\* Mutant: a failed message is acknowledged like a handled one.
HandlerFailsAcked(w) ==
  /\ failures' = [failures EXCEPT ![Head(batch[w])] = IF @ <= MaxRetries THEN @ + 1 ELSE @]
  /\ pc' = [pc EXCEPT ![w] = "ack"]
  /\ UNCHANGED <<batch, dead>>

\* The handler raised: dead-letter the message or leave it pending, and sleep.
HandlerFails(w) ==
  LET i == Head(batch[w])
  IN  /\ failures' = [failures EXCEPT ![i] = IF @ <= MaxRetries THEN @ + 1 ELSE @]
      /\ \/ /\ RetryCount(i) >= MaxRetries
            /\ dead' = dead \cup {i}
            /\ pc' = [pc EXCEPT ![w] = "ack"]
            /\ UNCHANGED batch
         \/ /\ RetryCount(i) < MaxRetries
            /\ batch' = [batch EXCEPT ![w] = Tail(@)]
            /\ UNCHANGED <<dead, pc>>

\* _process_message and what the loop does with its answer up to xack.
ProcessMessage(w) ==
  /\ pc[w] = "work"
  /\ batch[w] # << >>
  /\ \/ /\ stream[Head(batch[w])] \in {"good", "unknown"}
        /\ handled' = handled \cup {Head(batch[w])}
        /\ pc' = [pc EXCEPT ![w] = "ack"]
        /\ UNCHANGED <<batch, dead, failures>>
     \/ /\ stream[Head(batch[w])] = "poison"
        /\ HandlerFails(w)
        /\ UNCHANGED handled
  /\ UNCHANGED <<redis, faults, held>>

\* The handler of a good event raises this once, say for a database error.
ProcessMessageFails(w) ==
  /\ pc[w] = "work"
  /\ batch[w] # << >>
  /\ stream[Head(batch[w])] = "good"
  /\ Fault
  /\ HandlerFails(w)
  /\ UNCHANGED <<redis, handled, held>>

Acknowledge(i) ==
  /\ pel' = pel \ {i}
  /\ UNCHANGED <<stream, trimmed, cursor, idle>>

Ack(w) ==
  /\ pc[w] = "ack"
  /\ Acknowledge(Head(batch[w]))
  /\ batch' = [batch EXCEPT ![w] = Tail(@)]
  /\ pc' = [pc EXCEPT ![w] = "work"]
  /\ UNCHANGED <<handled, dead, faults, failures, held>>

\* xack raises, having reached the server or not: the loop body is left.
AckFails(w) ==
  /\ pc[w] = "ack"
  /\ Fault
  /\ Acknowledge(Head(batch[w])) \/ UNCHANGED redis
  /\ LeaveLoop(w)
  /\ UNCHANGED <<handled, dead, failures, held>>

\* results is exhausted.
NextLoop(w) ==
  /\ pc[w] = "work"
  /\ batch[w] = << >>
  /\ LeaveLoop(w)
  /\ UNCHANGED <<redis, handled, dead, faults, failures, held>>

\* The process dies and is started again, under a new consumer_id.
Crash(w) ==
  /\ pc[w] # "read"
  /\ Fault
  /\ LeaveLoop(w)
  /\ UNCHANGED <<redis, handled, dead, failures, held>>

\* Time passes, also while a handler runs or a worker sleeps.
Tick ==
  /\ idle' = [i \in Ids |-> IF i \in pel THEN Later(idle[i]) ELSE idle[i]]
  /\ held' = [w \in Workers |-> Later(held[w])]
  /\ UNCHANGED <<stream, trimmed, cursor, pel, pc, batch, handled, dead, faults, failures>>

Step(w) ==
  ReadGroup(w) \/ AutoClaim(w) \/ ProcessMessage(w) \/ Ack(w) \/ NextLoop(w)

Next ==
  \/ \E k \in Kinds : Publish(k)
  \/ \E w \in Workers : Step(w)
  \/ \E w \in Workers : ReadReplyLost(w) \/ AutoClaimFails(w) \/ ProcessMessageFails(w)
                        \/ AckFails(w) \/ Crash(w)
  \/ Tick

\* A worker that can go on does, and time goes on.  Nothing is assumed of
\* publishers or of faults.
Fairness == WF_vars(Tick) /\ \A w \in Workers : WF_vars(Step(w))

Spec == Init /\ [][Next]_vars /\ Fairness

-----------------------------------------------------------------------------
\* Positions are positions of accepted events and the history saturates.
TypeOK ==
  /\ stream \in Seq(Kinds) /\ Len(stream) <= MaxPublished
  /\ trimmed \in 0 .. Len(stream)
  /\ cursor \in 0 .. Len(stream)
  /\ pel \subseteq 1 .. cursor
  /\ idle \in [Ids -> Idle]
  /\ pc \in [Workers -> {"read", "claim", "work", "ack"}]
  /\ batch \in [Workers -> Seq(1 .. cursor)]
  /\ handled \subseteq 1 .. cursor
  /\ dead \subseteq 1 .. cursor
  /\ faults \in 0 .. MaxFaults
  /\ failures \in [Ids -> 0 .. MaxRetries + 1]
  /\ held \in [Workers -> Idle]

InBatch(w, i) == \E j \in 1 .. Len(batch[w]) : batch[w][j] = i

\* Two workers have the same message in hand only if one of them has been busy
\* with its loop body for CLAIM_TIMEOUT: xautoclaim does not take messages from
\* a worker that keeps up, whatever fails in between.
OverlapOnlyAfterTimeout ==
  \A v, w \in Workers : \A i \in Ids :
    v # w /\ InBatch(v, i) /\ InBatch(w, i) =>
      held[v] >= ClaimTimeout \/ held[w] >= ClaimTimeout

\* The events that need no (further) run of a handler.
Resolved == handled \cup dead

\* The entries no worker will be given again.
SettledIds == {i \in 1 .. cursor : i \notin pel}

Delivery == INSTANCE EventDelivery
              WITH Retention <- MaxLen, accepted <- Len(stream), expired <- trimmed,
                   resolved <- Resolved, settled <- SettledIds

\* The bus is an at-least-once event stream (streams.py:4-5): an entry leaves
\* the pending list only when its handler has completed, when it has none, when
\* it was dead-lettered or when maxlen has trimmed it, whatever workers crash,
\* replies are lost and batches are abandoned in between.
AtLeastOnce == Delivery!Spec

\* While no handler raises each time it runs, every accepted event is resolved
\* unless it is trimmed first: workers take over what crashed or failed ones
\* have left pending.
EventuallyResolved ==
  [](\A i \in 1 .. Len(stream) : stream[i] # "poison") =>
    \A i \in Ids : (i <= Len(stream)) ~> (i \in Resolved \/ i <= trimmed)

\* streams.py:120-121: "Messages that fail after MAX_RETRIES are moved to a
\* dead-letter stream".
FailedIsDeadLettered == \A i \in Ids : failures[i] > MaxRetries => i \in dead

\* streams.py:122: failing messages are "acknowledged so they don't block the
\* queue": an event whose handler can complete is resolved all the same.
FailingDoNotBlock ==
  \A i \in Ids : (i <= Len(stream) /\ stream[i] = "good")
                   ~> (i \in Resolved \/ i <= trimmed)

=============================================================================
