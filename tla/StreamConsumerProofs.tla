----------------------- MODULE StreamConsumerProofs -----------------------
(***************************************************************************)
(* Proofs about the Redis Streams event bus, for any number of workers,    *)
(* any batch size, timeout, retention, number of events and of faults.     *)
(***************************************************************************)
EXTENDS StreamConsumer, SequenceTheorems, TLAPS

USE StreamAssumption

-----------------------------------------------------------------------------
(* The inductive invariant.                                                *)

\* A worker about to acknowledge has a message at hand, and it is resolved.
AckResolved ==
  \A w \in Workers : pc[w] = "ack" => batch[w] # << >> /\ Head(batch[w]) \in Resolved

\* A message was last delivered no longer ago than any worker that has it in
\* hand began its loop body.
HeldCovers ==
  \A w \in Workers : \A i \in Ids : InBatch(w, i) => idle[i] <= held[w]

IInv == TypeOK /\ AckResolved /\ HeldCovers /\ OverlapOnlyAfterTimeout

-----------------------------------------------------------------------------
(* Facts about the helpers.                                                *)

\* What xreadgroup is about to deliver lies between the cursor and the end.
LEMMA ReadRange ==
  ASSUME TypeOK
  PROVE  /\ Larger(cursor, trimmed) \in cursor .. Len(stream)
         /\ Larger(cursor, trimmed) \in Nat
         /\ trimmed <= Larger(cursor, trimmed)
         /\ Larger(cursor, trimmed) \in {cursor, trimmed}
         /\ ReadUpTo \in Larger(cursor, trimmed) .. Len(stream)
         /\ ReadUpTo \in Nat
         /\ Len(stream) \in Nat
         /\ Len(stream) <= MaxPublished
  BY DEF TypeOK, ReadUpTo, Larger, Smaller

\* Dropping the head of a batch adds nothing to it.
LEMMA TailFacts ==
  ASSUME NEW S, NEW s \in Seq(S), s # << >>
  PROVE  /\ Tail(s) \in Seq(S)
         /\ Head(s) \in S
         /\ \A j \in 1 .. Len(Tail(s)) : \E k \in 1 .. Len(s) : Tail(s)[j] = s[k]
  <1>1. /\ Tail(s) \in Seq(S)
        /\ Head(s) \in S
        /\ Len(Tail(s)) = Len(s) - 1
        /\ \A j \in 1 .. Len(Tail(s)) : Tail(s)[j] = s[j + 1]
    BY HeadTailProperties
  <1>2. Len(s) \in Nat
    OBVIOUS
  <1>3. \A j \in 1 .. Len(Tail(s)) : j + 1 \in 1 .. Len(s)
    BY <1>1, <1>2
  <1> QED
    BY <1>1, <1>3

\* A function on 1 .. n is a sequence.
LEMMA FunctionIsSeq ==
  ASSUME NEW S, NEW n \in Nat, NEW s \in [1 .. n -> S]
  PROVE  s \in Seq(S) /\ Len(s) = n
  OBVIOUS

\* The part of a claim that joins the batch: its members come from the claim.
LEMMA SubSeqFacts ==
  ASSUME NEW S, NEW n \in Nat, NEW s \in [1 .. n -> S], NEW m \in 0 .. n
  PROVE  /\ s \in Seq(S)
         /\ Len(s) = n
         /\ SubSeq(s, m + 1, n) \in Seq(S)
         /\ Len(SubSeq(s, m + 1, n)) = n - m
         /\ \A j \in 1 .. n - m : SubSeq(s, m + 1, n)[j] = s[m + j]
  <1>1. s \in Seq(S) /\ Len(s) = n
    BY FunctionIsSeq
  <1> QED
    BY <1>1

\* A batch that grows by a claim: its members are old ones or claimed ones.
LEMMA ConcatFacts ==
  ASSUME NEW S, NEW b \in Seq(S), NEW t \in Seq(S)
  PROVE  /\ b \o t \in Seq(S)
         /\ \A j \in 1 .. Len(b \o t) :
              \/ \E k \in 1 .. Len(b) : (b \o t)[j] = b[k]
              \/ \E k \in 1 .. Len(t) : (b \o t)[j] = t[k]
  <1>1. /\ b \o t \in Seq(S)
        /\ Len(b \o t) = Len(b) + Len(t)
        /\ \A i \in 1 .. Len(b) + Len(t) :
             (b \o t)[i] = IF i <= Len(b) THEN b[i] ELSE t[i - Len(b)]
    BY ConcatProperties
  <1>2. Len(b) \in Nat /\ Len(t) \in Nat
    OBVIOUS
  <1>3. ASSUME NEW j \in 1 .. Len(b \o t)
        PROVE  \/ \E k \in 1 .. Len(b) : (b \o t)[j] = b[k]
               \/ \E k \in 1 .. Len(t) : (b \o t)[j] = t[k]
    <2>1. CASE j <= Len(b)
      BY <1>1, <1>2, <2>1
    <2>2. CASE ~(j <= Len(b))
      <3>1. j - Len(b) \in 1 .. Len(t)
        BY <1>1, <1>2, <2>2
      <3> QED
        BY <1>1, <1>2, <2>2, <3>1
    <2> QED
      BY <2>1, <2>2
  <1> QED
    BY <1>1, <1>3

\* A sequence of smaller numbers is one of larger numbers.
LEMMA SeqWiden ==
  ASSUME NEW S, NEW T, S \subseteq T, NEW s \in Seq(S)
  PROVE  s \in Seq(T)
  <1>1. Len(s) \in Nat /\ s \in [1 .. Len(s) -> S]
    BY LenProperties
  <1>2. s \in [1 .. Len(s) -> T]
    BY <1>1
  <1> QED
    BY <1>1, <1>2, FunctionIsSeq

-----------------------------------------------------------------------------
(* The type invariant, one lemma for each action with work to do.          *)

\* xreadgroup keeps the types of what it changes.
LEMMA DeliverType ==
  ASSUME TypeOK, Deliver
  PROVE  /\ cursor' \in cursor .. Len(stream)
         /\ cursor' \in Nat /\ cursor \in Nat
         /\ pel' \subseteq 1 .. cursor'
         /\ idle' \in [Ids -> Idle]
         /\ stream' = stream /\ trimmed' = trimmed
         /\ (1 .. cursor) \subseteq (1 .. cursor')
         /\ \A i \in Ids : idle'[i] \in {0, idle[i]}
  <1>1. cursor' \in cursor .. Len(stream) /\ cursor' \in Nat /\ cursor \in Nat
    BY ReadRange DEF Deliver, TypeOK
  <1>2. pel' \subseteq 1 .. cursor'
    <2>1. pel \subseteq 1 .. cursor'
      BY <1>1 DEF TypeOK
    <2>2. (Larger(cursor, trimmed) + 1 .. ReadUpTo) \subseteq 1 .. cursor'
      BY ReadRange DEF Deliver
    <2> QED
      BY <2>1, <2>2 DEF Deliver
  <1>3. idle' \in [Ids -> Idle]
    BY DEF Deliver, TypeOK, Idle
  <1>4. \A i \in Ids : idle'[i] \in {0, idle[i]}
    BY DEF Deliver
  <1> QED
    BY <1>1, <1>2, <1>3, <1>4 DEF Deliver

\* xautoclaim keeps the types of what it changes.
LEMMA ClaimType ==
  ASSUME TypeOK, NEW s, NEW m, Claim(s, m)
  PROVE  /\ pel' \subseteq pel
         /\ idle' \in [Ids -> Idle]
         /\ \A i \in Ids : idle'[i] \in {0, idle[i]}
         /\ UNCHANGED <<stream, trimmed, cursor>>
  BY DEF Claim, TypeOK, Idle

\* A worker's batch is replaced by one of its own kind: types are kept.
LEMMA BatchUpdate ==
  ASSUME TypeOK, NEW w \in Workers, NEW b \in Seq(1 .. cursor),
         batch' = [batch EXCEPT ![w] = b], cursor' = cursor
  PROVE  batch' \in [Workers -> Seq(1 .. cursor')]
  BY DEF TypeOK

\* Init satisfies the type invariant.
LEMMA InitType == Init => TypeOK
  <1> SUFFICES ASSUME Init PROVE TypeOK
    OBVIOUS
  <1>1. batch \in [Workers -> Seq(1 .. cursor)]
    <2>1. << >> \in Seq(1 .. cursor)
      OBVIOUS
    <2> QED
      BY <2>1 DEF Init
  <1> QED
    BY <1>1 DEF Init, TypeOK, Ids, Idle, Kinds

\* Publishing keeps the types.
LEMMA PublishType ==
  ASSUME TypeOK, NEW k \in Kinds, Publish(k)
  PROVE  TypeOK'
  <1>1. /\ stream' \in Seq(Kinds)
        /\ Len(stream') = Len(stream) + 1
        /\ Len(stream) \in Nat
    BY AppendProperties DEF Publish, TypeOK
  <1>2. Len(stream') <= MaxPublished
    BY <1>1 DEF Publish
  <1>3. trimmed' \in 0 .. Len(stream') /\ cursor' \in 0 .. Len(stream')
    BY <1>1 DEF Publish, TypeOK
  <1> QED
    BY <1>1, <1>2, <1>3 DEF Publish, TypeOK

\* Reading keeps the types, with or without its reply.
LEMMA ReadType ==
  ASSUME TypeOK, NEW w \in Workers, ReadGroup(w) \/ ReadReplyLost(w)
  PROVE  TypeOK'
  <1>1. /\ cursor' \in cursor .. Len(stream)
        /\ cursor' \in Nat /\ cursor \in Nat
        /\ pel' \subseteq 1 .. cursor'
        /\ idle' \in [Ids -> Idle]
        /\ stream' = stream /\ trimmed' = trimmed
        /\ (1 .. cursor) \subseteq (1 .. cursor')
    BY DeliverType DEF ReadGroup, ReadReplyLost
  <1>2. \A v \in Workers : batch[v] \in Seq(1 .. cursor')
    <2>1. \A v \in Workers : batch[v] \in Seq(1 .. cursor)
      BY DEF TypeOK
    <2> QED
      BY <1>1, <2>1, SeqWiden
  <1>3. batch' \in [Workers -> Seq(1 .. cursor')]
    <2>1. CASE ReadGroup(w)
      <3> DEFINE n == ReadUpTo - Larger(cursor, trimmed)
                 b == [j \in 1 .. n |-> Larger(cursor, trimmed) + j]
      <3>1. n \in Nat
        BY ReadRange
      <3>2. b \in [1 .. n -> 1 .. cursor']
        <4>1. ASSUME NEW j \in 1 .. n
              PROVE  Larger(cursor, trimmed) + j \in 1 .. cursor'
          <5>1. cursor' = ReadUpTo
            BY <2>1, ReadRange DEF ReadGroup, Deliver
          <5> QED
            BY <5>1, ReadRange
        <4> QED
          BY <4>1
      <3>3. batch' = [batch EXCEPT ![w] = b]
        BY <2>1 DEF ReadGroup
      <3> HIDE DEF b, n
      <3>4. b \in Seq(1 .. cursor')
        BY <3>1, <3>2, FunctionIsSeq
      <3> QED
        BY <1>2, <3>3, <3>4 DEF TypeOK
    <2>2. CASE ReadReplyLost(w)
      BY <1>2, <2>2 DEF ReadReplyLost, TypeOK
    <2> QED
      BY <2>1, <2>2
  <1>4. /\ cursor' \in 0 .. Len(stream')
        /\ handled' \subseteq 1 .. cursor'
        /\ dead' \subseteq 1 .. cursor'
    <2>1. handled' = handled /\ dead' = dead
      BY DEF ReadGroup, ReadReplyLost
    <2>2. handled \subseteq 1 .. cursor /\ dead \subseteq 1 .. cursor
      BY DEF TypeOK
    <2> QED
      BY <1>1, <2>1, <2>2
  <1>5. /\ pc' \in [Workers -> {"read", "claim", "work", "ack"}]
        /\ faults' \in 0 .. MaxFaults
        /\ failures' \in [Ids -> 0 .. MaxRetries + 1]
        /\ held' \in [Workers -> Idle]
    <2>1. failures' = failures /\ faults' \in {faults, faults + 1}
          /\ (faults' = faults \/ faults < MaxFaults)
      BY DEF ReadGroup, ReadReplyLost, Fault
    <2>2. \/ pc' = pc /\ held' = held
          \/ pc' = [pc EXCEPT ![w] = "claim"] /\ held' = [held EXCEPT ![w] = 0]
      BY DEF ReadGroup, ReadReplyLost
    <2>3. faults' \in 0 .. MaxFaults
      BY <2>1 DEF TypeOK
    <2>4. pc' \in [Workers -> {"read", "claim", "work", "ack"}]
      BY <2>2 DEF TypeOK
    <2>5. held' \in [Workers -> Idle]
      <3>1. 0 \in Idle
        BY DEF Idle
      <3>2. held \in [Workers -> Idle]
        BY DEF TypeOK
      <3> QED
        BY <2>2, <3>1, <3>2
    <2> QED
      BY <2>1, <2>3, <2>4, <2>5 DEF TypeOK
  <1> QED
    BY <1>1, <1>3, <1>4, <1>5 DEF TypeOK

\* Claiming keeps the types, with or without its reply.
LEMMA ClaimsType ==
  ASSUME TypeOK, NEW w \in Workers, AutoClaim(w) \/ AutoClaimFails(w)
  PROVE  TypeOK'
  <1>1. /\ pel' \subseteq pel
        /\ idle' \in [Ids -> Idle]
        /\ UNCHANGED <<stream, trimmed, cursor>>
    BY ClaimType DEF AutoClaim, AutoClaimFails, redis, TypeOK
  <1>2. batch' \in [Workers -> Seq(1 .. cursor')]
    <2>1. CASE AutoClaim(w)
      <3>1. PICK n \in 0 .. BatchSize : \E s \in [1 .. n -> Claimable] : \E m \in 0 .. n :
               batch' = [batch EXCEPT ![w] = batch[w] \o SubSeq(s, m + 1, n)]
        BY <2>1 DEF AutoClaim
      <3>2. PICK s \in [1 .. n -> Claimable], m \in 0 .. n :
               batch' = [batch EXCEPT ![w] = batch[w] \o SubSeq(s, m + 1, n)]
        BY <3>1
      <3>3. s \in [1 .. n -> 1 .. cursor]
        BY DEF Claimable, TypeOK
      <3>4. SubSeq(s, m + 1, n) \in Seq(1 .. cursor)
        BY <3>3, SubSeqFacts
      <3>5. batch[w] \o SubSeq(s, m + 1, n) \in Seq(1 .. cursor)
        BY <3>4, ConcatProperties DEF TypeOK
      <3> QED
        BY <1>1, <3>2, <3>5, BatchUpdate
    <2>2. CASE AutoClaimFails(w)
      BY <1>1, <2>2 DEF AutoClaimFails, TypeOK
    <2> QED
      BY <2>1, <2>2
  <1>3. /\ pc' \in [Workers -> {"read", "claim", "work", "ack"}]
        /\ faults' \in 0 .. MaxFaults
        /\ UNCHANGED <<handled, dead, failures, held>>
    BY DEF TypeOK, AutoClaim, AutoClaimFails, Fault
  <1> QED
    BY <1>1, <1>2, <1>3 DEF TypeOK

\* A failing handler keeps the types.
LEMMA HandlerFailsType ==
  ASSUME TypeOK, NEW w \in Workers, batch[w] # << >>, HandlerFails(w), cursor' = cursor
  PROVE  /\ failures' \in [Ids -> 0 .. MaxRetries + 1]
         /\ dead' \subseteq 1 .. cursor
         /\ pc' \in [Workers -> {"read", "claim", "work", "ack"}]
         /\ batch' \in [Workers -> Seq(1 .. cursor')]
  <1>1. Head(batch[w]) \in 1 .. cursor /\ Tail(batch[w]) \in Seq(1 .. cursor)
    BY TailFacts DEF TypeOK
  <1>2. failures' \in [Ids -> 0 .. MaxRetries + 1]
    <2>1. Head(batch[w]) \in Ids
      BY <1>1 DEF Ids, TypeOK
    <2>2. PICK x : /\ x = IF failures[Head(batch[w])] <= MaxRetries
                          THEN failures[Head(batch[w])] + 1 ELSE failures[Head(batch[w])]
                  /\ failures' = [failures EXCEPT ![Head(batch[w])] = x]
      BY DEF HandlerFails
    <2>3. x \in 0 .. MaxRetries + 1
      BY <2>1, <2>2 DEF TypeOK
    <2> QED
      BY <2>1, <2>2, <2>3 DEF TypeOK
  <1>3. dead' \subseteq 1 .. cursor /\ pc' \in [Workers -> {"read", "claim", "work", "ack"}]
    BY <1>1 DEF HandlerFails, TypeOK
  <1>4. batch' \in [Workers -> Seq(1 .. cursor')]
    BY <1>1, BatchUpdate DEF HandlerFails, TypeOK
  <1> QED
    BY <1>2, <1>3, <1>4

\* The other steps of the loop body keep the types.
LEMMA LoopType ==
  ASSUME TypeOK, NEW w \in Workers,
         \/ ProcessMessage(w) \/ ProcessMessageFails(w)
         \/ Ack(w) /\ batch[w] # << >>
         \/ AckFails(w) \/ NextLoop(w) \/ Crash(w)
  PROVE  TypeOK'
  <1>0. << >> \in Seq(1 .. cursor)
    OBVIOUS
  <1>1. CASE ProcessMessage(w)
    <2>1. Head(batch[w]) \in 1 .. cursor
      BY <1>1, TailFacts DEF TypeOK, ProcessMessage
    <2>2. /\ UNCHANGED <<redis, faults, held>>
          /\ cursor' = cursor
      BY <1>1 DEF ProcessMessage, redis
    <2>3. /\ handled' \subseteq 1 .. cursor
          /\ failures' \in [Ids -> 0 .. MaxRetries + 1]
          /\ dead' \subseteq 1 .. cursor
          /\ pc' \in [Workers -> {"read", "claim", "work", "ack"}]
          /\ batch' \in [Workers -> Seq(1 .. cursor')]
      BY <1>1, <2>1, <2>2, HandlerFailsType DEF ProcessMessage, TypeOK
    <2> QED
      BY <2>2, <2>3 DEF TypeOK, redis
  <1>2. CASE ProcessMessageFails(w)
    <2>1. UNCHANGED <<redis, held, handled>> /\ cursor' = cursor
      BY <1>2 DEF ProcessMessageFails, redis
    <2>2. /\ failures' \in [Ids -> 0 .. MaxRetries + 1]
          /\ dead' \subseteq 1 .. cursor
          /\ pc' \in [Workers -> {"read", "claim", "work", "ack"}]
          /\ batch' \in [Workers -> Seq(1 .. cursor')]
      BY <1>2, <2>1, HandlerFailsType DEF ProcessMessageFails
    <2>3. faults' \in 0 .. MaxFaults
      BY <1>2 DEF ProcessMessageFails, Fault, TypeOK
    <2> QED
      BY <2>1, <2>2, <2>3 DEF TypeOK, redis
  <1>3. CASE Ack(w) /\ batch[w] # << >>
    <2>1. Tail(batch[w]) \in Seq(1 .. cursor)
      BY <1>3, TailFacts DEF TypeOK
    <2>2. batch' \in [Workers -> Seq(1 .. cursor')]
      BY <1>3, <2>1, BatchUpdate DEF Ack, Acknowledge
    <2> QED
      BY <1>3, <2>2 DEF Ack, Acknowledge, TypeOK
  <1>4. CASE AckFails(w)
    <2>1. cursor' = cursor
      BY <1>4 DEF AckFails, Acknowledge, redis
    <2>2. batch' \in [Workers -> Seq(1 .. cursor')]
      BY <1>0, <1>4, <2>1, BatchUpdate DEF AckFails, LeaveLoop
    <2>3. /\ pel' \subseteq pel
          /\ UNCHANGED <<stream, trimmed, idle, handled, dead, failures, held>>
      BY <1>4 DEF AckFails, Acknowledge, redis
    <2>4. /\ pc' \in [Workers -> {"read", "claim", "work", "ack"}]
          /\ faults' \in 0 .. MaxFaults
      BY <1>4 DEF AckFails, LeaveLoop, Fault, TypeOK
    <2> QED
      BY <2>1, <2>2, <2>3, <2>4 DEF TypeOK
  <1>5. CASE NextLoop(w)
    <2>1. batch' \in [Workers -> Seq(1 .. cursor')]
      BY <1>0, <1>5, BatchUpdate DEF NextLoop, LeaveLoop, redis
    <2> QED
      BY <1>5, <2>1 DEF NextLoop, LeaveLoop, TypeOK, redis
  <1>6. CASE Crash(w)
    <2>1. batch' \in [Workers -> Seq(1 .. cursor')]
      BY <1>0, <1>6, BatchUpdate DEF Crash, LeaveLoop, redis
    <2> QED
      BY <1>6, <2>1 DEF Crash, LeaveLoop, Fault, TypeOK, redis
  <1> QED
    BY <1>1, <1>2, <1>3, <1>4, <1>5, <1>6

\* Time keeps the types.
LEMMA TickType ==
  ASSUME TypeOK, Tick
  PROVE  TypeOK'
  <1>1. idle' \in [Ids -> Idle] /\ held' \in [Workers -> Idle]
    BY DEF Tick, TypeOK, Later, Idle
  <1> QED
    BY <1>1 DEF Tick, TypeOK

-----------------------------------------------------------------------------
(* Frames: what a step of one worker leaves to be shown.                   *)

\* Only the acting worker's batch and program counter matter for AckResolved.
LEMMA AckFrame ==
  ASSUME AckResolved, NEW w \in Workers,
         \A v \in Workers : v # w => pc'[v] = pc[v] /\ batch'[v] = batch[v],
         Resolved \subseteq Resolved',
         pc'[w] = "ack" => batch'[w] # << >> /\ Head(batch'[w]) \in Resolved'
  PROVE  AckResolved'
  BY DEF AckResolved

\* Batches that only shrink, with all clocks as before, keep the clock facts.
LEMMA ShrinkFrame ==
  ASSUME HeldCovers, OverlapOnlyAfterTimeout,
         \A w \in Workers : \A i \in Ids : InBatch(w, i)' => InBatch(w, i),
         idle' = idle, held' = held
  PROVE  HeldCovers' /\ OverlapOnlyAfterTimeout'
  BY DEF HeldCovers, OverlapOnlyAfterTimeout

\* The same when entries were delivered again to nobody's batch.
LEMMA RedeliverFrame ==
  ASSUME TypeOK, HeldCovers, OverlapOnlyAfterTimeout,
         batch' = batch, held' = held,
         \A i \in Ids : idle'[i] \in {0, idle[i]}
  PROVE  HeldCovers' /\ OverlapOnlyAfterTimeout'
  <1>1. \A w \in Workers : \A i \in Ids : InBatch(w, i)' <=> InBatch(w, i)
    BY DEF InBatch
  <1>2. \A w \in Workers : held[w] \in Nat
    BY DEF TypeOK, Idle
  <1>3. \A i \in Ids : idle[i] \in Nat
    BY DEF TypeOK, Idle
  <1> QED
    BY <1>1, <1>2, <1>3 DEF HeldCovers, OverlapOnlyAfterTimeout

-----------------------------------------------------------------------------
(* Each action keeps the rest of the invariant.                            *)

\* ReadGroup: what is read was in nobody's batch.
LEMMA ReadGroupInv ==
  ASSUME IInv, NEW w \in Workers, ReadGroup(w)
  PROVE  AckResolved' /\ HeldCovers' /\ OverlapOnlyAfterTimeout'
  <1> USE DEF IInv
  <1>1. AckResolved'
    BY AckFrame DEF ReadGroup, Resolved, TypeOK
  <1> DEFINE from == Larger(cursor, trimmed)
  <1>2. /\ from \in Nat /\ cursor \in Nat /\ cursor <= from
        /\ ReadUpTo \in Nat
    BY ReadRange DEF TypeOK
  <1>3. \A i \in Ids : InBatch(w, i)' => i > cursor /\ i \in from + 1 .. ReadUpTo
    <2>1. batch'[w] = [j \in 1 .. ReadUpTo - from |-> from + j]
      BY DEF ReadGroup, TypeOK
    <2>2. ReadUpTo - from \in Nat
      BY ReadRange
    <2>3. Len(batch'[w]) = ReadUpTo - from
      BY <2>1, <2>2
    <2> QED
      BY <1>2, <2>1, <2>2, <2>3 DEF InBatch
  <1>4. \A v \in Workers : v # w => \A i \in Ids : InBatch(v, i)' <=> InBatch(v, i)
    BY DEF ReadGroup, TypeOK, InBatch
  <1>5. \A v \in Workers : \A i \in Ids : InBatch(v, i) => i <= cursor
    BY DEF TypeOK, InBatch
  <1>6. \A i \in Ids : /\ idle'[i] \in {0, idle[i]}
                       /\ i \in from + 1 .. ReadUpTo => idle'[i] = 0
                       /\ idle[i] \in Nat
    BY DEF ReadGroup, Deliver, TypeOK, Idle
  <1>7. /\ held'[w] = 0
        /\ \A v \in Workers : v # w => held'[v] = held[v]
        /\ \A v \in Workers : held[v] \in Nat
    BY DEF ReadGroup, TypeOK, Idle
  <1>8. HeldCovers'
    <2> SUFFICES ASSUME NEW v \in Workers, NEW i \in Ids, InBatch(v, i)'
                 PROVE  idle'[i] <= held'[v]
      BY DEF HeldCovers
    <2>1. CASE v = w
      BY <1>3, <1>6, <1>7, <2>1
    <2>2. CASE v # w
      <3>1. idle[i] <= held[v]
        BY <1>4, <2>2 DEF HeldCovers
      <3> QED
        BY <1>6, <1>7, <2>2, <3>1
    <2> QED
      BY <2>1, <2>2
  <1>9. OverlapOnlyAfterTimeout'
    <2> SUFFICES ASSUME NEW u \in Workers, NEW v \in Workers, NEW i \in Ids,
                        u # v, InBatch(u, i)', InBatch(v, i)'
                 PROVE  held'[u] >= ClaimTimeout \/ held'[v] >= ClaimTimeout
      BY DEF OverlapOnlyAfterTimeout
    <2>1. i \in Nat
      BY DEF Ids
    <2>2. u # w /\ v # w
      BY <1>2, <1>3, <1>4, <1>5, <2>1
    <2> QED
      BY <1>4, <1>7, <2>2 DEF OverlapOnlyAfterTimeout
  <1> QED
    BY <1>1, <1>8, <1>9

\* AutoClaim: who had a claimed message in hand has had it for CLAIM_TIMEOUT.
LEMMA AutoClaimInv ==
  ASSUME IInv, NEW w \in Workers, AutoClaim(w)
  PROVE  AckResolved' /\ HeldCovers' /\ OverlapOnlyAfterTimeout'
  <1> USE DEF IInv
  <1>1. AckResolved'
    BY AckFrame DEF AutoClaim, Resolved, TypeOK
  <1>2. PICK n \in 0 .. BatchSize : \E s \in [1 .. n -> Claimable] : \E m \in 0 .. n :
           /\ Claim(s, m)
           /\ batch' = [batch EXCEPT ![w] = batch[w] \o SubSeq(s, m + 1, n)]
    BY DEF AutoClaim
  <1>3. PICK s \in [1 .. n -> Claimable], m \in 0 .. n :
           /\ Claim(s, m)
           /\ batch' = [batch EXCEPT ![w] = batch[w] \o SubSeq(s, m + 1, n)]
    BY <1>2
  <1>4. s \in [1 .. n -> 1 .. cursor] /\ n \in Nat
    <2>1. Claimable \subseteq 1 .. cursor
      BY DEF Claimable, TypeOK
    <2>2. s \in [1 .. n -> 1 .. cursor]
      BY <2>1
    <2>3. n \in Nat
      OBVIOUS
    <2> QED
      BY <2>2, <2>3
  <1> DEFINE t == SubSeq(s, m + 1, n)
  <1>5. /\ Len(s) = n
        /\ t \in Seq(1 .. cursor)
        /\ Len(t) = n - m
        /\ \A j \in 1 .. n - m : t[j] = s[m + j]
    BY <1>4, SubSeqFacts
  <1>6. \A j \in 1 .. Len(t) : m + j \in 1 .. n /\ t[j] = s[m + j]
    BY <1>4, <1>5
  <1>7. batch'[w] = batch[w] \o t /\ \A v \in Workers : v # w => batch'[v] = batch[v]
    BY <1>3 DEF TypeOK
  <1> HIDE DEF t
  <1>8. \A i \in Ids : InBatch(w, i)' =>
                         InBatch(w, i) \/ (i \in Claimable /\ idle'[i] = 0)
    <2> SUFFICES ASSUME NEW i \in Ids, InBatch(w, i)', ~InBatch(w, i)
                 PROVE  i \in Claimable /\ idle'[i] = 0
      OBVIOUS
    <2>1. batch[w] \in Seq(1 .. cursor)
      BY DEF TypeOK
    <2>2. PICK j \in 1 .. Len(batch[w] \o t) : (batch[w] \o t)[j] = i
      BY <1>7 DEF InBatch
    <2>3. PICK k \in 1 .. Len(t) : t[k] = i
      BY <1>5, <2>1, <2>2, ConcatFacts DEF InBatch
    <2>4. m + k \in 1 .. n /\ s[m + k] = i
      BY <1>6, <2>3
    <2>5. i \in Claimable
      BY <2>4
    <2>6. idle'[i] = 0
      BY <1>3, <1>5, <2>4 DEF Claim
    <2> QED
      BY <2>5, <2>6
  <1>9. \A v \in Workers : v # w => \A i \in Ids : InBatch(v, i)' <=> InBatch(v, i)
    BY <1>7 DEF InBatch
  <1>10. /\ held' = held
         /\ \A v \in Workers : held[v] \in Nat
         /\ \A i \in Ids : idle[i] \in Nat /\ idle'[i] \in {0, idle[i]}
    <2>1. held' = held
      BY DEF AutoClaim
    <2>2. \A i \in Ids : idle'[i] \in {0, idle[i]}
      BY <1>3, ClaimType
    <2>3. /\ \A v \in Workers : held[v] \in Nat
          /\ \A i \in Ids : idle[i] \in Nat
      BY DEF TypeOK, Idle
    <2> QED
      BY <2>1, <2>2, <2>3
  <1>11. HeldCovers'
    BY <1>8, <1>9, <1>10 DEF HeldCovers
  <1>12. \A v \in Workers : \A i \in Ids :
            InBatch(v, i) /\ i \in Claimable => held[v] >= ClaimTimeout
    BY <1>10 DEF HeldCovers, Claimable
  <1>13. OverlapOnlyAfterTimeout'
    <2> SUFFICES ASSUME NEW u \in Workers, NEW v \in Workers, NEW i \in Ids,
                        u # v, InBatch(u, i)', InBatch(v, i)'
                 PROVE  held[u] >= ClaimTimeout \/ held[v] >= ClaimTimeout
      BY <1>10 DEF OverlapOnlyAfterTimeout
    <2>1. CASE InBatch(u, i) /\ InBatch(v, i)
      BY <2>1 DEF OverlapOnlyAfterTimeout
    <2>2. CASE ~InBatch(u, i)
      BY <1>8, <1>9, <1>12, <2>2
    <2>3. CASE ~InBatch(v, i)
      BY <1>8, <1>9, <1>12, <2>3
    <2> QED
      BY <2>1, <2>2, <2>3
  <1> QED
    BY <1>1, <1>11, <1>13

\* Dropping the message at hand, or all of them, only shrinks a batch.
LEMMA DropShrinks ==
  ASSUME TypeOK, NEW w \in Workers,
         \/ batch[w] # << >> /\ batch' = [batch EXCEPT ![w] = Tail(@)]
         \/ batch' = [batch EXCEPT ![w] = << >>]
         \/ batch' = batch
  PROVE  \A v \in Workers : \A i \in Ids : InBatch(v, i)' => InBatch(v, i)
  <1> SUFFICES ASSUME NEW v \in Workers, NEW i \in Ids, InBatch(v, i)'
               PROVE  InBatch(v, i)
    OBVIOUS
  <1>1. CASE batch'[v] = batch[v]
    BY <1>1 DEF InBatch
  <1>2. CASE batch'[v] = << >>
    BY <1>2 DEF InBatch
  <1>3. CASE batch[v] # << >> /\ batch'[v] = Tail(batch[v])
    <2>1. batch[v] \in Seq(1 .. cursor)
      BY DEF TypeOK
    <2> QED
      BY <1>3, <2>1, TailFacts DEF InBatch
  <1> QED
    BY <1>1, <1>2, <1>3 DEF TypeOK

\* The rest of the loop body: batches shrink, and what waits for its
\* acknowledgement has just been resolved.
LEMMA LoopInv ==
  ASSUME IInv, NEW w \in Workers,
         \/ ProcessMessage(w) \/ ProcessMessageFails(w)
         \/ Ack(w) \/ AckFails(w) \/ NextLoop(w) \/ Crash(w)
  PROVE  AckResolved' /\ HeldCovers' /\ OverlapOnlyAfterTimeout'
  <1> USE DEF IInv
  <1>1. idle' = idle /\ held' = held
    BY DEF ProcessMessage, ProcessMessageFails, Ack, AckFails, NextLoop, Crash,
           Acknowledge, redis
  <1>2. \/ batch[w] # << >> /\ batch' = [batch EXCEPT ![w] = Tail(@)]
        \/ batch' = [batch EXCEPT ![w] = << >>]
        \/ batch' = batch
    BY DEF ProcessMessage, ProcessMessageFails, HandlerFails, Ack, AckFails, NextLoop,
           Crash, LeaveLoop, AckResolved
  <1>3. HeldCovers' /\ OverlapOnlyAfterTimeout'
    BY <1>1, <1>2, DropShrinks, ShrinkFrame
  <1>4. \A v \in Workers : v # w => pc'[v] = pc[v] /\ batch'[v] = batch[v]
    <2>1. \A v \in Workers : v # w => batch'[v] = batch[v]
      BY <1>2 DEF TypeOK
    <2>2. pc' = pc \/ \E l : pc' = [pc EXCEPT ![w] = l]
      BY DEF ProcessMessage, ProcessMessageFails, HandlerFails, Ack, AckFails, NextLoop,
             Crash, LeaveLoop
    <2> QED
      BY <2>1, <2>2 DEF TypeOK
  <1>5. Resolved \subseteq Resolved'
    BY DEF Resolved, ProcessMessage, ProcessMessageFails, HandlerFails, Ack, AckFails,
           NextLoop, Crash
  <1>6. pc'[w] = "ack" => batch'[w] # << >> /\ Head(batch'[w]) \in Resolved'
    BY DEF Resolved, ProcessMessage, ProcessMessageFails, HandlerFails, Ack, AckFails,
           NextLoop, Crash, LeaveLoop, TypeOK
  <1> QED
    BY <1>3, <1>4, <1>5, <1>6, AckFrame

\* Time: a batch ages no slower than the messages in it.
LEMMA TickInv ==
  ASSUME IInv, Tick
  PROVE  AckResolved' /\ HeldCovers' /\ OverlapOnlyAfterTimeout'
  <1> USE DEF IInv
  <1>1. AckResolved'
    BY DEF Tick, AckResolved, Resolved
  <1>2. \A v \in Workers : \A i \in Ids : InBatch(v, i)' <=> InBatch(v, i)
    BY DEF Tick, InBatch
  <1>3. /\ \A v \in Workers : held'[v] = Later(held[v]) /\ held[v] \in Idle
        /\ \A i \in Ids : idle'[i] \in {idle[i], Later(idle[i])} /\ idle[i] \in Idle
    BY DEF Tick, TypeOK
  <1>4. \A a, b \in Idle : a <= b => /\ Later(a) <= Later(b)
                                     /\ a <= Later(b)
    BY DEF Idle, Later
  <1>5. \A a \in Idle : a >= ClaimTimeout => Later(a) >= ClaimTimeout
    BY DEF Idle, Later
  <1>6. HeldCovers'
    BY <1>2, <1>3, <1>4 DEF HeldCovers
  <1>7. OverlapOnlyAfterTimeout'
    BY <1>2, <1>3, <1>5 DEF OverlapOnlyAfterTimeout
  <1> QED
    BY <1>1, <1>6, <1>7

-----------------------------------------------------------------------------
(* The theorems.                                                           *)

\* Every step keeps the inductive invariant.
LEMMA StepInv == IInv /\ [Next]_vars => IInv'
  <1> SUFFICES ASSUME IInv, [Next]_vars
               PROVE  IInv'
    OBVIOUS
  <1> USE DEF IInv
  <1>1. CASE \E k \in Kinds : Publish(k)
    <2>1. PICK k \in Kinds : Publish(k)
      BY <1>1
    <2>2. TypeOK'
      BY <2>1, PublishType
    <2>3. UNCHANGED <<idle, pc, batch, handled, dead, held>>
      BY <2>1 DEF Publish
    <2> QED
      BY <2>2, <2>3 DEF AckResolved, Resolved, HeldCovers, OverlapOnlyAfterTimeout, InBatch
  <1>2. ASSUME NEW w \in Workers, ReadGroup(w)
        PROVE  IInv'
    BY <1>2, ReadType, ReadGroupInv
  <1>3. ASSUME NEW w \in Workers, AutoClaim(w)
        PROVE  IInv'
    BY <1>3, ClaimsType, AutoClaimInv
  <1>4. ASSUME NEW w \in Workers, ReadReplyLost(w)
        PROVE  IInv'
    <2>1. TypeOK'
      BY <1>4, ReadType
    <2>2. UNCHANGED <<pc, batch, handled, dead, held>>
      BY <1>4 DEF ReadReplyLost
    <2>3. \A i \in Ids : idle'[i] \in {0, idle[i]}
      BY <1>4, DeliverType DEF ReadReplyLost
    <2>4. AckResolved'
      BY <2>2 DEF AckResolved, Resolved
    <2> QED
      BY <2>1, <2>2, <2>3, <2>4, RedeliverFrame
  <1>5. ASSUME NEW w \in Workers, AutoClaimFails(w)
        PROVE  IInv'
    <2>1. TypeOK'
      BY <1>5, ClaimsType
    <2>2. UNCHANGED <<batch, handled, dead, held>>
      BY <1>5 DEF AutoClaimFails
    <2>3. \A i \in Ids : idle'[i] \in {0, idle[i]}
      BY <1>5, ClaimType DEF AutoClaimFails, redis
    <2>4. AckResolved'
      BY <1>5, AckFrame DEF AutoClaimFails, Resolved, TypeOK
    <2> QED
      BY <2>1, <2>2, <2>3, <2>4, RedeliverFrame
  <1>6. ASSUME NEW w \in Workers,
               \/ ProcessMessage(w) \/ ProcessMessageFails(w)
               \/ Ack(w) \/ AckFails(w) \/ NextLoop(w) \/ Crash(w)
        PROVE  IInv'
    <2>1. Ack(w) => batch[w] # << >>
      BY DEF Ack, AckResolved
    <2> QED
      BY <1>6, <2>1, LoopType, LoopInv
  <1>7. CASE Tick
    BY <1>7, TickType, TickInv
  <1>8. CASE UNCHANGED vars
    BY <1>8 DEF vars, TypeOK, AckResolved, Resolved, HeldCovers, OverlapOnlyAfterTimeout,
                InBatch
  <1> QED
    BY <1>1, <1>2, <1>3, <1>4, <1>5, <1>6, <1>7, <1>8 DEF Next, Step

\* The inductive invariant holds throughout.
THEOREM InductiveInvariant == Spec => []IInv
  <1>1. Init => IInv
    <2> SUFFICES ASSUME Init PROVE IInv
      OBVIOUS
    <2>1. TypeOK
      BY InitType
    <2>2. AckResolved /\ HeldCovers /\ OverlapOnlyAfterTimeout
      BY DEF Init, AckResolved, HeldCovers, OverlapOnlyAfterTimeout, InBatch
    <2> QED
      BY <2>1, <2>2 DEF IInv
  <1> QED
    BY <1>1, StepInv, PTL DEF Spec

\* Positions stay positions of accepted events, batches included.
THEOREM TypeCorrect == Spec => []TypeOK
  BY InductiveInvariant, PTL DEF IInv

\* xautoclaim never takes a message from a worker that keeps up.
THEOREM NoEarlyTakeover == Spec => []OverlapOnlyAfterTimeout
  BY InductiveInvariant, PTL DEF IInv

\* What a step does to the abstract state, once the pending list only loses
\* resolved or trimmed entries and the cursor only skips trimmed ones.
LEMMA SettleStep ==
  ASSUME TypeOK,
         UNCHANGED <<stream, trimmed, handled, dead>>,
         cursor' \in Nat, cursor <= cursor', cursor' <= Len(stream),
         \A i \in 1 .. cursor : i \notin pel => i \notin pel',
         \A i \in 1 .. cursor' : i \notin pel' =>
            i \in SettledIds \/ i \in Resolved \/ i <= trimmed
  PROVE  Delivery!Settle
  <1>1. SettledIds \subseteq SettledIds'
    BY DEF SettledIds, TypeOK
  <1>2. UNCHANGED <<Len(stream), trimmed, Resolved>>
    BY DEF Resolved
  <1>3. \A i \in SettledIds' \ SettledIds :
           i \in 1 .. Len(stream) /\ (i \in Resolved \/ i <= trimmed)
    BY DEF SettledIds, TypeOK
  <1> QED
    BY <1>1, <1>2, <1>3 DEF Delivery!Settle

\* A step of the event bus is a step of the abstract event stream, or none.
LEMMA StepRefines ==
  ASSUME IInv, [Next]_vars
  PROVE  [Delivery!Next]_(Delivery!vars)
  <1> USE DEF IInv
  <1>0. UNCHANGED <<stream, trimmed, cursor, pel, handled, dead>> => UNCHANGED Delivery!vars
    BY DEF Delivery!vars, Resolved, SettledIds
  <1>1. ASSUME NEW k \in Kinds, Publish(k)
        PROVE  Delivery!Accept
    <2>1. Len(stream') = Len(stream) + 1
      BY <1>1, AppendProperties DEF Publish, TypeOK
    <2>2. Resolved' = Resolved /\ SettledIds' = SettledIds
      BY <1>1 DEF Publish, Resolved, SettledIds
    <2>3. /\ trimmed' \in trimmed .. Len(stream')
          /\ trimmed' = trimmed \/ trimmed' + MaxLen <= Len(stream')
      BY <1>1 DEF Publish
    <2> QED
      BY <2>1, <2>2, <2>3 DEF Delivery!Accept
  <1>2. ASSUME Deliver, UNCHANGED <<handled, dead>>
        PROVE  Delivery!Settle
    <2> DEFINE from == Larger(cursor, trimmed)
    <2>1. /\ cursor' \in Nat /\ cursor <= cursor' /\ cursor' <= Len(stream)
          /\ UNCHANGED <<stream, trimmed>>
      BY <1>2, DeliverType DEF TypeOK
    <2>2. \A i \in 1 .. cursor : i \notin pel => i \notin pel'
      BY <1>2, ReadRange DEF Deliver, TypeOK
    <2>3. ASSUME NEW i \in 1 .. cursor', i \notin pel'
          PROVE  i \in SettledIds \/ i <= trimmed
      <3>1. i \notin pel /\ i \notin from + 1 .. ReadUpTo
        BY <1>2, <2>3 DEF Deliver
      <3>2. cursor' = ReadUpTo \/ (cursor' = cursor /\ cursor \in Nat)
        BY <1>2 DEF Deliver, TypeOK
      <3>3. i <= cursor \/ i <= from
        BY <2>1, <3>1, <3>2, ReadRange
      <3>4. i <= cursor \/ i <= trimmed
        BY <3>3 DEF Larger
      <3> QED
        BY <2>1, <3>1, <3>4 DEF SettledIds, TypeOK
    <2> QED
      BY <1>2, <2>1, <2>2, <2>3, SettleStep
  <1>3. ASSUME NEW n \in Nat, NEW s \in [1 .. n -> Claimable], NEW m \in 0 .. n, Claim(s, m),
               UNCHANGED <<handled, dead>>
        PROVE  Delivery!Settle
    <2>1. Len(s) = n
      BY FunctionIsSeq
    <2>2. \A i \in pel \ pel' : i <= trimmed
      <3>1. \A j \in 1 .. m : j \in 1 .. n /\ s[j] <= trimmed
        BY <1>3, <2>1 DEF Claim
      <3> QED
        BY <1>3, <3>1 DEF Claim
    <2>3. UNCHANGED <<stream, trimmed, cursor>> /\ pel' \subseteq pel
      BY <1>3, ClaimType
    <2>4. \A i \in 1 .. cursor' : i \notin pel' => i \in SettledIds \/ i <= trimmed
      BY <2>2, <2>3 DEF SettledIds
    <2>5. cursor' \in Nat /\ cursor <= cursor' /\ cursor' <= Len(stream)
      BY <2>3 DEF TypeOK
    <2> QED
      BY <1>3, <2>3, <2>4, <2>5, SettleStep
  <1>4. ASSUME NEW i \in Resolved, Acknowledge(i), UNCHANGED <<handled, dead>>
        PROVE  Delivery!Settle
    <2>1. UNCHANGED <<stream, trimmed, cursor>> /\ pel' = pel \ {i}
      BY <1>4 DEF Acknowledge
    <2>2. \A k \in 1 .. cursor' : k \notin pel' => k \in SettledIds \/ k \in Resolved
      BY <2>1 DEF SettledIds
    <2>3. cursor' \in Nat /\ cursor <= cursor' /\ cursor' <= Len(stream)
      BY <2>1 DEF TypeOK
    <2> QED
      BY <1>4, <2>1, <2>2, <2>3, SettleStep
  <1>5. ASSUME NEW i \in 1 .. cursor, UNCHANGED redis, Resolved' = Resolved \cup {i}
        PROVE  Delivery!Next
    <2>1. i \in 1 .. Len(stream)
      BY DEF TypeOK
    <2>2. Len(stream') = Len(stream) /\ trimmed' = trimmed /\ SettledIds' = SettledIds
      BY <1>5 DEF redis, SettledIds
    <2> QED
      BY <1>5, <2>1, <2>2 DEF Delivery!Next, Delivery!Resolve
  <1>6. ASSUME NEW w \in Workers, ProcessMessage(w) \/ ProcessMessageFails(w)
        PROVE  Delivery!Next \/ UNCHANGED Delivery!vars
    <2>1. Head(batch[w]) \in 1 .. cursor
      BY <1>6, TailFacts DEF ProcessMessage, ProcessMessageFails, TypeOK
    <2>2. UNCHANGED redis
      BY <1>6 DEF ProcessMessage, ProcessMessageFails
    <2>3. \/ UNCHANGED <<handled, dead>>
          \/ handled' = handled \cup {Head(batch[w])} /\ dead' = dead
          \/ handled' = handled /\ dead' = dead \cup {Head(batch[w])}
      BY <1>6 DEF ProcessMessage, ProcessMessageFails, HandlerFails
    <2>4. UNCHANGED <<handled, dead>> \/ Resolved' = Resolved \cup {Head(batch[w])}
      BY <2>3 DEF Resolved
    <2> QED
      BY <1>0, <1>5, <2>1, <2>2, <2>4 DEF redis
  <1>7. ASSUME NEW w \in Workers, ReadGroup(w) \/ ReadReplyLost(w)
        PROVE  Delivery!Settle
    BY <1>2, <1>7 DEF ReadGroup, ReadReplyLost
  <1>8. ASSUME NEW w \in Workers, AutoClaim(w) \/ AutoClaimFails(w)
        PROVE  Delivery!Settle \/ UNCHANGED Delivery!vars
    <2>1. UNCHANGED <<handled, dead>>
      BY <1>8 DEF AutoClaim, AutoClaimFails
    <2>2. \/ UNCHANGED redis
          \/ \E n \in 0 .. BatchSize : \E s \in [1 .. n -> Claimable] : \E m \in 0 .. n :
                Claim(s, m)
      BY <1>8 DEF AutoClaim, AutoClaimFails
    <2>3. \A n \in 0 .. BatchSize : n \in Nat
      OBVIOUS
    <2> QED
      BY <1>0, <1>3, <2>1, <2>2, <2>3 DEF redis
  <1>9. ASSUME NEW w \in Workers, Ack(w) \/ AckFails(w)
        PROVE  Delivery!Settle \/ UNCHANGED Delivery!vars
    <2>1. Head(batch[w]) \in Resolved
      BY <1>9 DEF Ack, AckFails, AckResolved
    <2>2. UNCHANGED <<handled, dead>>
      BY <1>9 DEF Ack, AckFails
    <2>3. Acknowledge(Head(batch[w])) \/ UNCHANGED redis
      BY <1>9 DEF Ack, AckFails
    <2> QED
      BY <1>0, <1>4, <2>1, <2>2, <2>3 DEF redis
  <1>10. ASSUME NEW w \in Workers, NextLoop(w) \/ Crash(w)
         PROVE  UNCHANGED Delivery!vars
    BY <1>0, <1>10 DEF NextLoop, Crash, redis
  <1>11. CASE Tick \/ UNCHANGED vars
    BY <1>0, <1>11 DEF Tick, vars
  <1> QED
    BY <1>1, <1>6, <1>7, <1>8, <1>9, <1>10, <1>11 DEF Next, Step, Delivery!Next

\* The event bus implements the at-least-once event stream.
THEOREM BusIsAtLeastOnce == Spec => AtLeastOnce
  <1>1. Init => Delivery!Init
    BY DEF Init, Delivery!Init, Resolved, SettledIds
  <1>2. Spec => []IInv
    BY InductiveInvariant
  <1> QED
    BY <1>1, <1>2, StepRefines, PTL DEF Spec, AtLeastOnce, Delivery!Spec

-----------------------------------------------------------------------------
(* What the bus has from the abstract stream alone.                        *)

\* Nothing leaves the pending list for good unless its handler has completed, it
\* needed none, it was dead-lettered, or maxlen has trimmed it.
NothingDropped == SettledIds \subseteq Resolved \cup 1 .. trimmed

\* The abstract stream promises it: what is settled was resolved or has expired
\* before, and neither is ever taken back.
LEMMA DeliveryDropsNothing == AtLeastOnce => []NothingDropped
  <1> DEFINE Counted == Len(stream) \in Nat /\ trimmed \in Nat
  <1>1. Delivery!Init => Counted /\ NothingDropped
    BY DEF Delivery!Init, NothingDropped
  <1>2. ASSUME Counted, NothingDropped, [Delivery!Next]_(Delivery!vars)
        PROVE  Counted' /\ NothingDropped'
    <2>1. CASE Delivery!Accept
      <3>1. Counted' /\ trimmed <= trimmed'
        BY <1>2, <2>1 DEF Delivery!Accept
      <3>2. 1 .. trimmed \subseteq 1 .. trimmed'
        BY <1>2, <3>1
      <3> QED
        BY <1>2, <2>1, <3>1, <3>2 DEF Delivery!Accept, NothingDropped
    <2>2. CASE Delivery!Settle
      <3>1. UNCHANGED <<Len(stream), trimmed, Resolved>>
        BY <2>2 DEF Delivery!Settle
      <3>2. \A i \in SettledIds' \ SettledIds : i \in 1 .. Len(stream)
                                          /\ (i \in Resolved \/ i <= trimmed)
        BY <2>2 DEF Delivery!Settle
      <3>3. \A i \in SettledIds' \ SettledIds : i \in Resolved \cup 1 .. trimmed
        BY <1>2, <3>2
      <3> QED
        BY <1>2, <3>1, <3>3 DEF NothingDropped
    <2>3. ASSUME NEW i \in 1 .. Len(stream), Delivery!Resolve(i)
          PROVE  Counted' /\ NothingDropped'
      BY <1>2, <2>3 DEF Delivery!Resolve, NothingDropped
    <2>4. CASE UNCHANGED Delivery!vars
      BY <1>2, <2>4 DEF Delivery!vars, NothingDropped
    <2> QED
      BY <1>2, <2>1, <2>2, <2>3, <2>4 DEF Delivery!Next
  <1> QED
    BY <1>1, <1>2, PTL DEF AtLeastOnce, Delivery!Spec

\* However workers crash, lose replies and take messages over, the bus drops no
\* event that is still retained before it was resolved.
THEOREM BusDropsNothing == Spec => []NothingDropped
  BY BusIsAtLeastOnce, DeliveryDropsNothing, PTL

=============================================================================
