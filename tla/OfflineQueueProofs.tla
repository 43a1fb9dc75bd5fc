------------------------- MODULE OfflineQueueProofs -------------------------
(***************************************************************************)
(* Theorems about OfflineQueue, for any number of mutations and any cap.   *)
(***************************************************************************)
EXTENDS OfflineQueue, TLAPS

Ordered(q) == \A i, j \in DOMAIN q : i < j => q[i] < q[j]
UpTo(q, n) == \A i \in DOMAIN q : q[i] <= n

\* Every copy of the queue is in order, within the cap and of mutations that
\* were made: the stored one, those that enqueueing calls hold, and what a sync
\* holds, whose failed mutations come before those it has still to replay.
InOrder ==
    /\ Ordered(stored) /\ Len(stored) <= MaxQueue /\ UpTo(stored, issued)
    /\ \A m \in Enqueuing :
        m <= issued /\ Ordered(enqueuing[m]) /\ Len(enqueuing[m]) <= MaxQueue
                    /\ UpTo(enqueuing[m], m - 1)
    /\ Ordered(remaining) /\ UpTo(remaining, issued)
    /\ ~IsSyncing => remaining = <<>>
    /\ IsSyncing =>
        /\ Ordered(syncing) /\ UpTo(syncing, issued)
        /\ Len(remaining) + Len(syncing) <= MaxQueue
        /\ \A i \in DOMAIN remaining, j \in DOMAIN syncing : remaining[i] < syncing[j]

\* What will be replayed if nothing else happens.
Waiting == IF IsSyncing THEN ToSet(remaining) \union ToSet(syncing) ELSE ToSet(stored)

\* An enqueueing call's own mutation is nowhere else yet.
Unwritten ==
    \A m \in Enqueuing :
        /\ applied[m] = 0 /\ m \notin ToSet(stored) /\ m \notin Waiting
        /\ \A k \in Enqueuing : m \notin ToSet(enqueuing[k])

\* A mutation that was queued with nobody else at the queue, and that nobody has
\* carried out or dropped, is in every copy of it.
InEveryCopy ==
    \A m \in accepted \ (exposed \union evicted) :
        \/ applied[m] > 0
        \/ /\ m \in ToSet(stored) /\ m \in Waiting
           /\ \A k \in Enqueuing : m \in ToSet(enqueuing[k])

\* What still waits although it was carried out is known to be.
WaitingKnown == \A m \in Waiting : applied[m] > 0 => m \in repeatable

Unmade == \A m \in Mutations : m > issued => applied[m] = 0

IInv ==
    /\ QueueTypeOK /\ InOrder /\ Unmade /\ Unwritten
    /\ InEveryCopy /\ WaitingKnown /\ RepeatsExplained

LEMMA CopiesLoseNothing == InEveryCopy => NothingLost
  BY DEF InEveryCopy, NothingLost

---------------------------------------------------------------------------
(* Sequences of mutations                                                  *)

LEMMA SplicedFacts ==
    ASSUME NEW q \in Seq(Mutations), Ordered(q), Len(q) <= MaxQueue
    PROVE  /\ Spliced(q) \in Seq(Mutations) /\ Ordered(Spliced(q))
           /\ Len(Spliced(q)) <= MaxQueue - 1
           /\ ToSet(Spliced(q)) \subseteq ToSet(q)
           /\ \A n \in Int : UpTo(q, n) => UpTo(Spliced(q), n)
  <1> USE QueueAssumption DEF QueueAssumption
  <1>1. CASE Len(q) < MaxQueue
    BY <1>1 DEF Spliced, Ordered, UpTo
  <1>2. CASE Len(q) >= MaxQueue
    <2>1. Len(q) = MaxQueue
      BY <1>2
    <2> DEFINE s == SubSeq(q, 2, Len(q))
    <2>2. Spliced(q) = s
      <3>1. Len(q) - MaxQueue + 2 = 2
        BY <2>1
      <3> QED
        BY <1>2, <3>1 DEF Spliced
    <2>3. s \in Seq(Mutations) /\ Len(s) = Len(q) - 1
      BY <2>1
    <2>4. \A i \in 1..Len(s) : s[i] = q[i + 1]
      BY <2>1
    <2>5. DOMAIN s = 1..Len(s) /\ DOMAIN q = 1..Len(q)
      BY <2>3
    <2> HIDE DEF s
    <2>6. Ordered(s)
      <3> SUFFICES ASSUME NEW i \in 1..Len(s), NEW j \in 1..Len(s), i < j
                   PROVE  s[i] < s[j]
        BY <2>5 DEF Ordered
      <3>1. i + 1 \in DOMAIN q /\ j + 1 \in DOMAIN q /\ i + 1 < j + 1
        BY <2>3, <2>5
      <3> QED
        BY <2>4, <3>1 DEF Ordered
    <2>7. ToSet(s) \subseteq ToSet(q)
      <3>1. \A i \in DOMAIN s : i + 1 \in DOMAIN q /\ s[i] = q[i + 1]
        BY <2>3, <2>4, <2>5
      <3> QED
        BY <3>1 DEF ToSet
    <2>8. \A n \in Int : UpTo(q, n) => UpTo(s, n)
      <3>1. \A i \in DOMAIN s : i + 1 \in DOMAIN q /\ s[i] = q[i + 1]
        BY <2>3, <2>4, <2>5
      <3> QED
        BY <3>1 DEF UpTo
    <2> QED
      BY <2>1, <2>2, <2>3, <2>6, <2>7, <2>8
  <1> QED
    BY <1>1, <1>2

LEMMA AppendFacts ==
    ASSUME NEW q \in Seq(Mutations), NEW m \in Mutations
    PROVE  /\ Append(q, m) \in Seq(Mutations) /\ Len(Append(q, m)) = Len(q) + 1
           /\ ToSet(Append(q, m)) = ToSet(q) \union {m}
           /\ Ordered(q) /\ UpTo(q, m - 1) => Ordered(Append(q, m))
           /\ \A n \in Int : UpTo(q, n) /\ m <= n => UpTo(Append(q, m), n)
  <1> DEFINE s == Append(q, m)
  <1>1. s \in Seq(Mutations) /\ Len(s) = Len(q) + 1
    OBVIOUS
  <1>2. s[Len(q) + 1] = m /\ \A i \in 1..Len(q) : s[i] = q[i]
    OBVIOUS
  <1>3. DOMAIN s = 1..(Len(q) + 1) /\ DOMAIN q = 1..Len(q) /\ Len(q) \in Nat
    BY <1>1
  <1>4. \A i \in 1..Len(q) : q[i] \in Int
    BY <1>3, QueueAssumption DEF Mutations, QueueAssumption
  <1>5. m \in Int
    BY QueueAssumption DEF Mutations, QueueAssumption
  <1> HIDE DEF s
  <1>6. ToSet(s) = ToSet(q) \union {m}
    <2>1. \A i \in DOMAIN s : s[i] \in ToSet(q) \union {m}
      BY <1>2, <1>3 DEF ToSet
    <2>2. \A i \in DOMAIN q : q[i] \in ToSet(s)
      BY <1>2, <1>3 DEF ToSet
    <2>3. m \in ToSet(s)
      BY <1>2, <1>3 DEF ToSet
    <2> QED
      BY <2>1, <2>2, <2>3 DEF ToSet
  <1>7. ASSUME Ordered(q), UpTo(q, m - 1)
        PROVE  Ordered(s)
    BY <1>2, <1>3, <1>4, <1>5, <1>7 DEF Ordered, UpTo
  <1>8. \A n \in Int : UpTo(q, n) /\ m <= n => UpTo(s, n)
    BY <1>2, <1>3 DEF UpTo
  <1> QED
    BY <1>1, <1>6, <1>7, <1>8 DEF s

LEMMA TailFacts ==
    ASSUME NEW q \in Seq(Mutations), q # <<>>, Ordered(q)
    PROVE  /\ Head(q) \in Mutations
           /\ Tail(q) \in Seq(Mutations) /\ Len(Tail(q)) = Len(q) - 1
           /\ Ordered(Tail(q))
           /\ ToSet(q) = ToSet(Tail(q)) \union {Head(q)}
           /\ \A n \in Int : UpTo(q, n) => UpTo(Tail(q), n) /\ Head(q) <= n
           /\ \A i \in DOMAIN Tail(q) : Head(q) < Tail(q)[i] /\ \E j \in DOMAIN q : q[j] = Tail(q)[i]
           /\ Head(q) \notin ToSet(Tail(q))
           /\ \E j \in DOMAIN q : q[j] = Head(q)
  <1> DEFINE t == Tail(q)
             h == Head(q)
  <1>1. h = q[1] /\ t \in Seq(Mutations) /\ Len(t) = Len(q) - 1 /\ Len(q) \in Nat \ {0}
    OBVIOUS
  <1>2. \A i \in 1..Len(t) : t[i] = q[i + 1]
    OBVIOUS
  <1>3. DOMAIN t = 1..Len(t) /\ DOMAIN q = 1..Len(q)
    BY <1>1
  <1>4. \A i \in 1..Len(q) : q[i] \in Mutations /\ q[i] \in Int
    BY <1>3, QueueAssumption DEF Mutations, QueueAssumption
  <1> HIDE DEF t, h
  <1>5. Ordered(t)
    <2> SUFFICES ASSUME NEW i \in 1..Len(t), NEW j \in 1..Len(t), i < j
                 PROVE  t[i] < t[j]
      BY <1>3 DEF Ordered
    <2>1. i + 1 \in DOMAIN q /\ j + 1 \in DOMAIN q /\ i + 1 < j + 1
      BY <1>1, <1>3
    <2> QED
      BY <1>2, <2>1 DEF Ordered
  <1>6. ToSet(q) = ToSet(t) \union {h}
    <2>1. \A i \in DOMAIN q : q[i] \in ToSet(t) \union {h}
      <3> SUFFICES ASSUME NEW i \in 1..Len(q), i # 1
                   PROVE  q[i] \in ToSet(t)
        BY <1>1, <1>3
      <3>1. i - 1 \in DOMAIN t /\ t[i - 1] = q[i]
        BY <1>1, <1>2, <1>3
      <3> QED
        BY <3>1 DEF ToSet
    <2>2. \A i \in DOMAIN t : t[i] \in ToSet(q)
      BY <1>1, <1>2, <1>3 DEF ToSet
    <2>3. h \in ToSet(q)
      BY <1>1, <1>3 DEF ToSet
    <2> QED
      BY <2>1, <2>2, <2>3 DEF ToSet
  <1>7. \A n \in Int : UpTo(q, n) => UpTo(t, n) /\ h <= n
    BY <1>1, <1>2, <1>3 DEF UpTo
  <1>8. \A i \in DOMAIN t : h < t[i] /\ \E j \in DOMAIN q : q[j] = t[i]
    <2> SUFFICES ASSUME NEW i \in 1..Len(t)
                 PROVE  h < t[i] /\ \E j \in DOMAIN q : q[j] = t[i]
      BY <1>3
    <2>1. i + 1 \in DOMAIN q /\ 1 \in DOMAIN q /\ 1 < i + 1
      BY <1>1, <1>3
    <2> QED
      BY <1>1, <1>2, <2>1 DEF Ordered
  <1>9. h \notin ToSet(t)
    <2>1. \A i \in DOMAIN t : h # t[i]
      BY <1>1, <1>2, <1>3, <1>4, <1>8
    <2> QED
      BY <2>1 DEF ToSet
  <1>10. \E j \in DOMAIN q : q[j] = h
    BY <1>1, <1>3
  <1>11. h \in Mutations
    BY <1>1, <1>4
  <1> QED
    BY <1>1, <1>5, <1>6, <1>7, <1>8, <1>9, <1>10, <1>11 DEF t, h

LEMMA ConcatSet ==
    ASSUME NEW r \in Seq(Mutations), NEW s \in Seq(Mutations)
    PROVE  ToSet(r \o s) = ToSet(r) \union ToSet(s)
  <1> DEFINE c == r \o s
  <1>1. c \in Seq(Mutations) /\ Len(c) = Len(r) + Len(s) /\ Len(r) \in Nat /\ Len(s) \in Nat
    OBVIOUS
  <1>2. /\ \A i \in 1..Len(r) : c[i] = r[i]
        /\ \A i \in 1..Len(s) : c[Len(r) + i] = s[i]
    OBVIOUS
  <1>3. DOMAIN c = 1..(Len(r) + Len(s)) /\ DOMAIN r = 1..Len(r) /\ DOMAIN s = 1..Len(s)
    BY <1>1
  <1> HIDE DEF c
  <1>4. \A i \in DOMAIN c : c[i] \in ToSet(r) \union ToSet(s)
    <2> SUFFICES ASSUME NEW i \in 1..(Len(r) + Len(s))
                 PROVE  c[i] \in ToSet(r) \union ToSet(s)
      BY <1>3
    <2>1. CASE i <= Len(r)
      BY <1>1, <1>2, <1>3, <2>1 DEF ToSet
    <2>2. CASE i > Len(r)
      <3>1. i - Len(r) \in 1..Len(s) /\ Len(r) + (i - Len(r)) = i
        BY <1>1, <2>2
      <3>2. c[i] = s[i - Len(r)]
        BY <1>2, <3>1
      <3> QED
        BY <1>3, <3>1, <3>2 DEF ToSet
    <2> QED
      BY <1>1, <2>1, <2>2
  <1>5. \A i \in DOMAIN r : r[i] \in ToSet(c)
    BY <1>1, <1>2, <1>3 DEF ToSet
  <1>6. \A i \in DOMAIN s : s[i] \in ToSet(c)
    <2> SUFFICES ASSUME NEW i \in 1..Len(s)
                 PROVE  s[i] \in ToSet(c)
      BY <1>3
    <2>1. Len(r) + i \in DOMAIN c /\ c[Len(r) + i] = s[i]
      BY <1>1, <1>2, <1>3
    <2> QED
      BY <2>1 DEF ToSet
  <1> QED
    BY <1>4, <1>5, <1>6 DEF ToSet, c

LEMMA NothingApart == Nothing \notin Seq(Mutations)
  BY QueueAssumption DEF QueueAssumption

\* The set of a sequence of mutations.
LEMMA SetOfMutations ==
    ASSUME NEW q \in Seq(Mutations)
    PROVE  ToSet(q) \subseteq Mutations
  BY DEF ToSet

---------------------------------------------------------------------------
(* The steps                                                               *)

LEMMA QueueInitInv == QueueInit => IInv
  <1> SUFFICES ASSUME QueueInit
               PROVE  IInv
    OBVIOUS
  <1>1. /\ Enqueuing = {} /\ ~IsSyncing /\ stored = <<>> /\ remaining = <<>>
        /\ \A m \in Mutations : applied[m] = 0
    BY DEF QueueInit, Enqueuing, IsSyncing
  <1>2. QueueTypeOK
    <2>1. applied \in [Mutations -> 0..MaxApplied] /\ issued \in 0..MaxMutations
      BY QueueAssumption DEF QueueInit, QueueAssumption
    <2>2. <<>> \in Seq(Mutations)
      OBVIOUS
    <2>3. enqueuing \in [Mutations -> Seq(Mutations) \union {Nothing}]
      BY DEF QueueInit
    <2>4. syncing \in Seq(Mutations) \union {Nothing}
      BY DEF QueueInit
    <2>5. stored \in Seq(Mutations) /\ remaining \in Seq(Mutations)
      BY <2>2 DEF QueueInit
    <2>6. /\ online \in BOOLEAN /\ exposed \subseteq Mutations
          /\ accepted \subseteq Mutations /\ evicted \subseteq Mutations
          /\ repeatable \subseteq Mutations
      BY DEF QueueInit
    <2> QED
      BY <2>1, <2>3, <2>4, <2>5, <2>6 DEF QueueTypeOK
  <1>3. InOrder
    BY <1>1, QueueAssumption DEF InOrder, Ordered, UpTo, QueueAssumption
  <1>4. Unmade /\ Unwritten /\ InEveryCopy /\ RepeatsExplained
    BY <1>1 DEF QueueInit, Unmade, Unwritten, InEveryCopy, RepeatsExplained
  <1>5. WaitingKnown
    BY <1>1 DEF WaitingKnown, Waiting, ToSet
  <1> QED
    BY <1>2, <1>3, <1>4, <1>5 DEF IInv

\* Of a step that leaves the storage and the sync alone.
LEMMA MutateOnlineStep ==
    ASSUME IInv, MutateOnline
    PROVE  IInv'
  <1> DEFINE n == issued + 1
  <1>1. /\ issued < MaxMutations /\ issued' = n
        /\ applied' \in {applied, [applied EXCEPT ![n] = 1]}
        /\ UNCHANGED <<online, stored, enqueuing, exposed, accepted, evicted, syncing,
                       remaining, repeatable>>
    BY DEF MutateOnline, storageVars, syncVars
  <1>2. issued \in Nat /\ n \in Mutations /\ n \in 0..MaxMutations /\ 1 \in 0..MaxApplied
    BY <1>1, QueueAssumption DEF IInv, QueueTypeOK, Mutations, QueueAssumption
  <1>3. applied \in [Mutations -> 0..MaxApplied]
    BY DEF IInv, QueueTypeOK
  <1>4. applied[n] = 0
    BY <1>2 DEF IInv, Unmade
  <1> HIDE DEF n
  <1>5. /\ \A m \in Mutations : m # n => applied'[m] = applied[m]
        /\ applied'[n] \in 0..1
        /\ applied' \in [Mutations -> 0..MaxApplied]
    BY <1>1, <1>2, <1>3, <1>4
  <1>6. /\ stored \in Seq(Mutations) /\ remaining \in Seq(Mutations)
        /\ IsSyncing => syncing \in Seq(Mutations)
        /\ \A m \in Enqueuing : enqueuing[m] \in Seq(Mutations)
    BY DEF IInv, QueueTypeOK, IsSyncing, Enqueuing
  <1>7. QueueTypeOK'
    BY <1>1, <1>2, <1>5 DEF IInv, QueueTypeOK
  <1>8. \A q \in Seq(Mutations) : UpTo(q, issued) => UpTo(q, n) /\ n \notin ToSet(q)
    <2> SUFFICES ASSUME NEW q \in Seq(Mutations), UpTo(q, issued)
                 PROVE  UpTo(q, n) /\ n \notin ToSet(q)
      OBVIOUS
    <2>1. \A i \in DOMAIN q : q[i] \in Int
      BY QueueAssumption DEF Mutations, QueueAssumption
    <2>2. n = issued + 1
      BY DEF n
    <2> QED
      BY <1>2, <2>1, <2>2 DEF UpTo, ToSet
  <1>9. Enqueuing' = Enqueuing /\ IsSyncing' = IsSyncing /\ Waiting' = Waiting
    BY <1>1 DEF Enqueuing, IsSyncing, Waiting
  <1>10. \A m \in Enqueuing : m <= n /\ m # n
    <2>1. \A m \in Enqueuing : m \in Int /\ m <= issued
      BY QueueAssumption DEF IInv, InOrder, Enqueuing, Mutations, QueueAssumption
    <2> QED
      BY <1>2, <2>1 DEF n
  <1>11. InOrder'
    BY <1>1, <1>6, <1>8, <1>9, <1>10 DEF IInv, InOrder
  <1>12. Unmade'
    <2>1. \A m \in Mutations : m > n => m > issued /\ m # n
      BY <1>2, QueueAssumption DEF Mutations, n, QueueAssumption
    <2> QED
      BY <1>1, <1>5, <2>1 DEF IInv, Unmade
  <1>13. n \notin Waiting /\ Waiting \subseteq Mutations
    BY <1>6, <1>8, SetOfMutations DEF IInv, InOrder, Waiting
  <1>14. Unwritten' /\ WaitingKnown'
    <2>1. \A m \in Enqueuing : m \in Mutations
      BY DEF Enqueuing
    <2> QED
      BY <1>1, <1>5, <1>9, <1>10, <1>13, <2>1 DEF IInv, Unwritten, WaitingKnown
  <1>15. InEveryCopy'
    <2>1. \A m \in Mutations : applied[m] > 0 => applied'[m] > 0
      BY <1>4, <1>5
    <2>2. accepted \subseteq Mutations
      BY DEF IInv, QueueTypeOK
    <2> QED
      BY <1>1, <1>9, <2>1, <2>2 DEF IInv, InEveryCopy
  <1>16. RepeatsExplained'
    BY <1>1, <1>5 DEF IInv, RepeatsExplained
  <1> QED
    BY <1>7, <1>11, <1>12, <1>14, <1>15, <1>16 DEF IInv

LEMMA EnqueueReadStep ==
    ASSUME IInv, EnqueueRead
    PROVE  IInv'
  <1> DEFINE n == issued + 1
  <1>1. /\ issued < MaxMutations /\ issued' = n
        /\ enqueuing' = [enqueuing EXCEPT ![n] = stored]
        /\ UNCHANGED <<online, stored, accepted, evicted, exposed, syncing, remaining, applied,
                       repeatable>>
    BY DEF EnqueueRead, syncVars
  <1>2. issued \in Nat /\ n \in Mutations /\ n \in 0..MaxMutations
    BY <1>1, QueueAssumption DEF IInv, QueueTypeOK, Mutations, QueueAssumption
  <1>3. /\ enqueuing \in [Mutations -> Seq(Mutations) \union {Nothing}]
        /\ stored \in Seq(Mutations) /\ remaining \in Seq(Mutations)
        /\ IsSyncing => syncing \in Seq(Mutations)
    BY DEF IInv, QueueTypeOK, IsSyncing
  <1>4. applied[n] = 0
    BY <1>2 DEF IInv, Unmade
  <1>5. n = issued + 1 /\ n - 1 = issued
    BY <1>2
  <1> HIDE DEF n
  <1>6. enqueuing'[n] = stored /\ \A m \in Mutations : m # n => enqueuing'[m] = enqueuing[m]
    BY <1>1, <1>2, <1>3
  <1>7. QueueTypeOK'
    <2>1. enqueuing' \in [Mutations -> Seq(Mutations) \union {Nothing}]
      BY <1>1, <1>2, <1>3
    <2> QED
      BY <1>1, <1>2, <2>1 DEF IInv, QueueTypeOK
  <1>8. \A q \in Seq(Mutations) : UpTo(q, issued) => UpTo(q, n)
    <2>1. \A q \in Seq(Mutations) : \A i \in DOMAIN q : q[i] \in Int
      BY QueueAssumption DEF Mutations, QueueAssumption
    <2> QED
      BY <1>2, <1>5, <2>1 DEF UpTo
  <1>9. IsSyncing' = IsSyncing /\ Waiting' = Waiting
    BY <1>1 DEF IsSyncing, Waiting
  <1>10. \A m \in Enqueuing' : m = n \/ (m \in Enqueuing /\ enqueuing'[m] = enqueuing[m])
    BY <1>6 DEF Enqueuing
  <1>11. InOrder'
    <2>1. \A m \in Enqueuing : m \in Int /\ m <= issued
      BY QueueAssumption DEF IInv, InOrder, Enqueuing, Mutations, QueueAssumption
    <2>2. \A m \in Enqueuing : m <= n
      BY <1>2, <1>5, <2>1
    <2>3. \A m \in Enqueuing' :
             m <= n /\ Ordered(enqueuing'[m]) /\ Len(enqueuing'[m]) <= MaxQueue
                    /\ UpTo(enqueuing'[m], m - 1)
      <3> SUFFICES ASSUME NEW m \in Enqueuing'
                   PROVE  m <= n /\ Ordered(enqueuing'[m]) /\ Len(enqueuing'[m]) <= MaxQueue
                                 /\ UpTo(enqueuing'[m], m - 1)
        OBVIOUS
      <3>1. CASE m = n
        BY <1>2, <1>5, <1>6, <3>1 DEF IInv, InOrder
      <3>2. CASE m # n
        BY <1>10, <2>2, <3>2 DEF IInv, InOrder
      <3> QED
        BY <3>1, <3>2
    <2>4. UpTo(stored, n) /\ UpTo(remaining, n) /\ (IsSyncing => UpTo(syncing, n))
      BY <1>3, <1>8 DEF IInv, InOrder
    <2> QED
      BY <1>1, <1>9, <2>3, <2>4 DEF IInv, InOrder
  <1>12. Unmade'
    <2>1. \A m \in Mutations : m > n => m > issued
      BY <1>2, <1>5, QueueAssumption DEF Mutations, QueueAssumption
    <2> QED
      BY <1>1, <2>1 DEF IInv, Unmade
  <1>13. Unwritten'
    <2>1. \A q \in Seq(Mutations) : UpTo(q, issued) => n \notin ToSet(q)
      <3>1. \A q \in Seq(Mutations) : \A i \in DOMAIN q : q[i] \in Int
        BY QueueAssumption DEF Mutations, QueueAssumption
      <3> QED
        BY <1>2, <1>5, <3>1 DEF UpTo, ToSet
    <2>2. n \notin ToSet(stored) /\ n \notin Waiting
      BY <1>3, <2>1 DEF IInv, InOrder, Waiting
    <2>3. \A k \in Enqueuing : n \notin ToSet(enqueuing[k])
      <3> SUFFICES ASSUME NEW k \in Enqueuing
                   PROVE  n \notin ToSet(enqueuing[k])
        OBVIOUS
      <3>1. /\ k \in Int /\ k <= issued /\ UpTo(enqueuing[k], k - 1)
            /\ enqueuing[k] \in Seq(Mutations)
        BY <1>3, QueueAssumption DEF IInv, InOrder, Enqueuing, Mutations, QueueAssumption
      <3>2. \A i \in DOMAIN enqueuing[k] : enqueuing[k][i] \in Int
        BY <3>1, QueueAssumption DEF Mutations, QueueAssumption
      <3> QED
        BY <1>2, <1>5, <3>1, <3>2 DEF UpTo, ToSet
    <2> QED
      BY <1>1, <1>4, <1>6, <1>9, <1>10, <2>2, <2>3 DEF IInv, Unwritten
  <1>14. InEveryCopy' /\ WaitingKnown' /\ RepeatsExplained'
    BY <1>1, <1>6, <1>9, <1>10 DEF IInv, InEveryCopy, WaitingKnown, RepeatsExplained
  <1> QED
    BY <1>7, <1>11, <1>12, <1>13, <1>14 DEF IInv

LEMMA EnqueueWriteStep ==
    ASSUME IInv, NEW m \in Mutations, EnqueueWrite(m)
    PROVE  IInv'
  <1> DEFINE q == enqueuing[m]
             s == Spliced(q)
  <1>1. /\ m \in Enqueuing
        /\ stored' = Append(s, m)
        /\ evicted' = evicted \union (ToSet(q) \ ToSet(s))
        /\ accepted' = accepted \union {m}
        /\ enqueuing' = [enqueuing EXCEPT ![m] = Nothing]
        /\ exposed' = IF IsSyncing \/ Enqueuing # {m} THEN exposed \union {m} ELSE exposed
        /\ repeatable' = repeatable \union {k \in ToSet(s) \ ToSet(stored) : applied[k] > 0}
        /\ UNCHANGED <<online, issued, syncing, remaining, applied>>
    BY DEF EnqueueWrite, syncVars
  <1>2. enqueuing \in [Mutations -> Seq(Mutations) \union {Nothing}]
    BY DEF IInv, QueueTypeOK
  <1>3. /\ q \in Seq(Mutations) /\ Ordered(q) /\ Len(q) <= MaxQueue
        /\ UpTo(q, m - 1) /\ m <= issued
    BY <1>1, <1>2 DEF Enqueuing, IInv, InOrder
  <1>4. m \in Int /\ m - 1 \in Int /\ issued \in Int /\ MaxQueue \in Int
    BY QueueAssumption DEF Mutations, IInv, QueueTypeOK, QueueAssumption
  <1>5. /\ s \in Seq(Mutations) /\ Ordered(s) /\ Len(s) <= MaxQueue - 1
        /\ ToSet(s) \subseteq ToSet(q) /\ UpTo(s, m - 1)
    BY <1>3, <1>4, SplicedFacts
  <1>6. UpTo(s, issued)
    <2>1. \A i \in DOMAIN s : s[i] \in Int
      BY <1>5, QueueAssumption DEF Mutations, QueueAssumption
    <2> QED
      BY <1>3, <1>4, <1>5, <2>1 DEF UpTo
  <1>7. ToSet(q) \subseteq Mutations
    BY <1>3, SetOfMutations
  <1> HIDE DEF q, s
  <1>8. /\ stored' \in Seq(Mutations) /\ Ordered(stored') /\ Len(stored') <= MaxQueue
        /\ UpTo(stored', issued) /\ ToSet(stored') = ToSet(s) \union {m}
    <2>1. /\ stored' \in Seq(Mutations) /\ Len(stored') = Len(s) + 1
          /\ ToSet(stored') = ToSet(s) \union {m}
          /\ Ordered(stored') /\ UpTo(stored', issued)
      BY <1>1, <1>3, <1>4, <1>5, <1>6, AppendFacts
    <2>2. Len(s) \in Nat
      BY <1>5
    <2> QED
      BY <1>4, <1>5, <2>1, <2>2
  <1>9. QueueTypeOK'
    <2>1. enqueuing' \in [Mutations -> Seq(Mutations) \union {Nothing}]
      BY <1>1, <1>2
    <2>2. exposed' \subseteq Mutations /\ repeatable' \subseteq Mutations
      BY <1>1, <1>5, <1>7 DEF IInv, QueueTypeOK
    <2> QED
      BY <1>1, <1>7, <1>8, <2>1, <2>2 DEF IInv, QueueTypeOK
  <1>10. /\ Enqueuing' \subseteq Enqueuing \ {m} /\ IsSyncing' = IsSyncing
         /\ \A k \in Enqueuing' : enqueuing'[k] = enqueuing[k]
    BY <1>1, <1>2 DEF Enqueuing, IsSyncing
  <1>11. InOrder'
    BY <1>1, <1>8, <1>10 DEF IInv, InOrder
  <1>12. Unmade'
    BY <1>1 DEF IInv, Unmade
  <1>13. Waiting' = IF IsSyncing THEN Waiting ELSE ToSet(s) \union {m}
    BY <1>1, <1>8, <1>10 DEF Waiting
  <1>14. /\ applied[m] = 0
         /\ \A k \in Enqueuing \ {m} : k \notin ToSet(q) /\ m \notin ToSet(enqueuing[k])
    BY <1>1 DEF IInv, Unwritten, q
  <1>15. Unwritten'
    <2> SUFFICES ASSUME NEW k \in Enqueuing'
                 PROVE  /\ applied[k] = 0 /\ k \notin ToSet(stored') /\ k \notin Waiting'
                        /\ \A l \in Enqueuing' : k \notin ToSet(enqueuing'[l])
      BY <1>1 DEF Unwritten
    <2>1. k \in Enqueuing /\ k # m
      BY <1>10
    <2>2. k \notin ToSet(s)
      BY <1>5, <1>14, <2>1
    <2> QED
      BY <1>8, <1>10, <1>13, <2>1, <2>2 DEF IInv, Unwritten
  <1>16. InEveryCopy'
    <2> SUFFICES ASSUME NEW k \in accepted', k \notin exposed', k \notin evicted',
                        ~(applied[k] > 0)
                 PROVE  /\ k \in ToSet(stored') /\ k \in Waiting'
                        /\ \A l \in Enqueuing' : k \in ToSet(enqueuing'[l])
      BY <1>1 DEF InEveryCopy
    <2>1. CASE k = m
      <3>1. ~IsSyncing /\ Enqueuing = {m}
        BY <1>1, <2>1
      <3> QED
        BY <1>8, <1>10, <1>13, <2>1, <3>1
    <2>2. CASE k # m
      <3>1. k \in accepted \ (exposed \union evicted)
        BY <1>1, <2>2
      <3>2. k \in Waiting /\ \A l \in Enqueuing : k \in ToSet(enqueuing[l])
        BY <3>1 DEF IInv, InEveryCopy
      <3>3. k \in ToSet(s)
        BY <1>1, <3>2 DEF q
      <3> QED
        BY <1>8, <1>10, <1>13, <3>2, <3>3
    <2> QED
      BY <2>1, <2>2
  <1>17. WaitingKnown'
    <2> SUFFICES ASSUME NEW k \in Waiting', applied[k] > 0
                 PROVE  k \in repeatable'
      BY <1>1 DEF WaitingKnown
    <2>1. k \in Waiting => k \in repeatable'
      BY <1>1 DEF IInv, WaitingKnown
    <2>2. CASE IsSyncing
      BY <1>13, <2>1, <2>2
    <2>3. CASE ~IsSyncing
      <3>1. k \in ToSet(s)
        BY <1>13, <1>14, <2>3
      <3>2. k \in ToSet(stored) => k \in Waiting
        BY <2>3 DEF Waiting
      <3> QED
        BY <1>1, <2>1, <3>1, <3>2
    <2> QED
      BY <2>2, <2>3
  <1>18. RepeatsExplained'
    BY <1>1 DEF IInv, RepeatsExplained
  <1> QED
    BY <1>9, <1>11, <1>12, <1>15, <1>16, <1>17, <1>18 DEF IInv

LEMMA NetInfoStep ==
    ASSUME IInv, (\E reachable \in BOOLEAN : NetInfoConnected(reachable)) \/ NetInfoDisconnected
    PROVE  IInv'
  <1>1. /\ online' \in BOOLEAN
        /\ UNCHANGED <<issued, stored, enqueuing, remaining, applied, accepted, evicted, exposed,
                       repeatable>>
    BY DEF NetInfoConnected, NetInfoDisconnected, storageVars, syncVars
  <1>2. CASE UNCHANGED syncing
    <2>1. QueueTypeOK'
      BY <1>1, <1>2 DEF IInv, QueueTypeOK
    <2> QED
      BY <1>1, <1>2, <2>1 DEF IInv, InOrder, Unmade, Unwritten, InEveryCopy,
                              WaitingKnown, RepeatsExplained, Enqueuing, IsSyncing, Waiting
  <1>3. CASE ~IsSyncing /\ syncing' = stored
    <2>1. QueueTypeOK'
      BY <1>1, <1>3 DEF IInv, QueueTypeOK
    <2>2. remaining = <<>> /\ Enqueuing' = Enqueuing
      BY <1>1, <1>3 DEF IInv, InOrder, Enqueuing
    <2>3. stored \in Seq(Mutations) /\ Len(stored) \in Nat
      BY DEF IInv, QueueTypeOK
    <2>4. Len(remaining) + Len(stored) <= MaxQueue /\ DOMAIN remaining = {}
      BY <2>2, <2>3 DEF IInv, InOrder
    <2>5. InOrder'
      BY <1>1, <1>3, <2>2, <2>4 DEF IInv, InOrder, IsSyncing
    <2>6. ToSet(remaining) = {}
      BY <2>4 DEF ToSet
    <2>7. Waiting' = ToSet(stored) /\ Waiting = ToSet(stored)
      BY <1>1, <1>3, <2>6 DEF Waiting, IsSyncing
    <2>8. Unwritten' /\ InEveryCopy' /\ WaitingKnown'
      BY <1>1, <2>2, <2>7 DEF IInv, Unwritten, InEveryCopy, WaitingKnown
    <2>9. Unmade' /\ RepeatsExplained'
      BY <1>1, <1>3 DEF IInv, Unmade, RepeatsExplained
    <2> QED
      BY <2>1, <2>5, <2>8, <2>9 DEF IInv
  <1> QED
    BY <1>2, <1>3 DEF NetInfoConnected, NetInfoDisconnected, storageVars, syncVars

\* The next request of a sync, whether it succeeds or fails.
LEMMA ReplayStep ==
    ASSUME IInv, Replayed \/ \E lost \in BOOLEAN : ReplayFailed(lost)
    PROVE  IInv'
  <1> DEFINE h == Head(syncing)
             t == Tail(syncing)
  <1>1. /\ IsSyncing /\ syncing # <<>> /\ syncing' = t
        /\ UNCHANGED <<online, issued, stored, enqueuing, exposed, accepted, evicted>>
    BY DEF Replayed, ReplayFailed, storageVars
  <1>2. \/ /\ applied[h] < MaxApplied /\ applied' = [applied EXCEPT ![h] = @ + 1]
           /\ remaining' = remaining /\ repeatable' = repeatable
        \/ /\ applied[h] < MaxApplied /\ applied' = [applied EXCEPT ![h] = @ + 1]
           /\ remaining' = Append(remaining, h) /\ repeatable' = repeatable \union {h}
        \/ /\ applied' = applied
           /\ remaining' = Append(remaining, h) /\ repeatable' = repeatable
    BY DEF Replayed, ReplayFailed
  <1>3. /\ syncing \in Seq(Mutations) /\ Ordered(syncing) /\ UpTo(syncing, issued)
        /\ remaining \in Seq(Mutations) /\ Ordered(remaining) /\ UpTo(remaining, issued)
        /\ Len(remaining) + Len(syncing) <= MaxQueue
        /\ \A i \in DOMAIN remaining, j \in DOMAIN syncing : remaining[i] < syncing[j]
    BY <1>1 DEF IInv, QueueTypeOK, InOrder, IsSyncing
  <1>4. /\ issued \in Int /\ MaxQueue \in Int /\ issued \in Nat
        /\ applied \in [Mutations -> 0..MaxApplied]
        /\ Len(remaining) \in Nat /\ Len(syncing) \in Nat
    BY <1>3, QueueAssumption DEF IInv, QueueTypeOK, QueueAssumption
  <1>5. /\ h \in Mutations /\ t \in Seq(Mutations) /\ Len(t) = Len(syncing) - 1
        /\ Ordered(t) /\ UpTo(t, issued) /\ h <= issued
        /\ ToSet(syncing) = ToSet(t) \union {h} /\ h \notin ToSet(t)
        /\ \A i \in DOMAIN t : h < t[i] /\ \E j \in DOMAIN syncing : syncing[j] = t[i]
        /\ \E j \in DOMAIN syncing : syncing[j] = h
    BY <1>1, <1>3, <1>4, TailFacts
  <1>6. h \in Int /\ \A i \in DOMAIN remaining : remaining[i] \in Int /\ remaining[i] < h
    BY <1>3, <1>5, QueueAssumption DEF Mutations, QueueAssumption
  <1>7. UpTo(remaining, h - 1) /\ h \notin ToSet(remaining)
    BY <1>6 DEF UpTo, ToSet
  <1>8. \A i \in DOMAIN remaining, j \in DOMAIN t : remaining[i] < t[j]
    BY <1>3, <1>5
  <1> HIDE DEF h, t
  <1>9. /\ applied' \in [Mutations -> 0..MaxApplied]
        /\ applied'[h] \in {applied[h], applied[h] + 1} /\ applied[h] \in Nat
        /\ \A m \in Mutations : m # h => applied'[m] = applied[m]
    <2>1. applied[h] \in 0..MaxApplied
      BY <1>4, <1>5
    <2>2. CASE applied' = applied
      BY <1>4, <1>5, <2>1, <2>2
    <2>3. CASE applied[h] < MaxApplied /\ applied' = [applied EXCEPT ![h] = @ + 1]
      <3>1. applied[h] + 1 \in 0..MaxApplied
        BY <2>1, <2>3, QueueAssumption DEF QueueAssumption
      <3> QED
        BY <1>4, <1>5, <2>1, <2>3, <3>1
    <2> QED
      BY <1>2, <2>2, <2>3
  <1>10. DEFINE a == Append(remaining, h)
  <1>11. /\ a \in Seq(Mutations) /\ Len(a) = Len(remaining) + 1 /\ Ordered(a) /\ UpTo(a, issued)
         /\ ToSet(a) = ToSet(remaining) \union {h}
    BY <1>3, <1>4, <1>5, <1>7, AppendFacts
  <1>12. \A i \in DOMAIN a, j \in DOMAIN t : a[i] < t[j]
    <2>1. \A i \in DOMAIN a : (i \in DOMAIN remaining /\ a[i] = remaining[i]) \/ a[i] = h
      <3>1. DOMAIN a = 1..(Len(remaining) + 1) /\ DOMAIN remaining = 1..Len(remaining)
        BY <1>3, <1>5
      <3>2. a[Len(remaining) + 1] = h
        BY <1>3, <1>5
      <3>3. \A i \in 1..Len(remaining) : a[i] = remaining[i]
        BY <1>3, <1>5
      <3> QED
        BY <1>4, <3>1, <3>2, <3>3
    <2> QED
      BY <1>5, <1>8, <2>1
  <1> HIDE DEF a
  <1>13. /\ remaining' \in Seq(Mutations) /\ Ordered(remaining') /\ UpTo(remaining', issued)
         /\ Len(remaining') <= Len(remaining) + 1 /\ Len(remaining') \in Nat
         /\ \A i \in DOMAIN remaining', j \in DOMAIN t : remaining'[i] < t[j]
    <2>1. CASE remaining' = remaining
      BY <1>3, <1>4, <1>8, <2>1
    <2>2. CASE remaining' = a
      BY <1>4, <1>11, <1>12, <2>2
    <2> QED
      BY <1>2, <2>1, <2>2 DEF a
  <1>14. Len(remaining') + Len(t) <= MaxQueue
    BY <1>3, <1>4, <1>5, <1>13
  <1>15. QueueTypeOK'
    <2>1. repeatable' \subseteq Mutations
      BY <1>2, <1>5 DEF IInv, QueueTypeOK
    <2> QED
      BY <1>1, <1>5, <1>9, <1>13, <2>1 DEF IInv, QueueTypeOK
  <1>16. Enqueuing' = Enqueuing
    BY <1>1 DEF Enqueuing
  <1>17. InOrder'
    <2>1. ~IsSyncing' => remaining' = <<>>
      <3> SUFFICES ASSUME syncing' = Nothing
                   PROVE  FALSE
        BY DEF IsSyncing
      <3> QED
        BY <1>1, <1>5, NothingApart
    <2> QED
      BY <1>1, <1>5, <1>13, <1>14, <1>16, <2>1 DEF IInv, InOrder
  <1>18. Unmade'
    <2> SUFFICES ASSUME NEW m \in Mutations, m > issued
                 PROVE  applied'[m] = 0
      BY <1>1 DEF Unmade
    <2>1. m # h
      BY <1>4, <1>5, <1>6, QueueAssumption DEF Mutations, QueueAssumption
    <2> QED
      BY <1>9, <2>1 DEF IInv, Unmade
  <1>19. /\ Waiting = ToSet(remaining) \union ToSet(t) \union {h}
         /\ Waiting' = ToSet(remaining') \union ToSet(t) /\ IsSyncing'
         /\ Waiting \subseteq Mutations
    <2>1. IsSyncing'
      BY <1>1, <1>5, NothingApart DEF IsSyncing
    <2>2. ToSet(remaining) \subseteq Mutations /\ ToSet(t) \subseteq Mutations
      BY <1>3, <1>5, SetOfMutations
    <2>3. Waiting = ToSet(remaining) \union ToSet(syncing)
      BY <1>1 DEF Waiting
    <2>4. Waiting' = ToSet(remaining') \union ToSet(t)
      BY <1>1, <2>1 DEF Waiting
    <2> QED
      BY <1>5, <2>1, <2>2, <2>3, <2>4
  <1>20. \/ /\ Waiting' = Waiting \ {h} /\ applied'[h] = applied[h] + 1 /\ repeatable' = repeatable
         \/ /\ Waiting' = Waiting /\ applied'[h] \in {applied[h], applied[h] + 1}
            /\ h \in repeatable' /\ repeatable' = repeatable \union {h}
         \/ Waiting' = Waiting /\ applied' = applied /\ repeatable' = repeatable
    <2>1. CASE applied' = [applied EXCEPT ![h] = @ + 1] /\ remaining' = remaining
                 /\ repeatable' = repeatable
      <3>1. applied'[h] = applied[h] + 1
        BY <1>4, <1>5, <2>1
      <3>2. Waiting' = Waiting \ {h}
        BY <1>5, <1>7, <1>19, <2>1
      <3> QED
        BY <2>1, <3>1, <3>2
    <2>2. CASE /\ remaining' = a
                /\ \/ repeatable' = repeatable \union {h}
                   \/ applied' = applied /\ repeatable' = repeatable
      <3>1. Waiting' = Waiting
        BY <1>11, <1>19, <2>2
      <3> QED
        BY <1>9, <2>2, <3>1
    <2> QED
      BY <1>2, <2>1, <2>2 DEF a
  <1>21. \A m \in Mutations : applied[m] > 0 => applied'[m] > 0
    BY <1>9
  <1>22. Unwritten' /\ WaitingKnown'
    <2>1. Waiting' \subseteq Waiting /\ h \notin Enqueuing
      BY <1>19, <1>20 DEF IInv, Unwritten
    <2>2. Enqueuing \subseteq Mutations
      BY DEF Enqueuing
    <2>3. Unwritten'
      BY <1>1, <1>9, <1>16, <2>1, <2>2 DEF IInv, Unwritten
    <2>4. WaitingKnown'
      BY <1>9, <1>19, <1>20 DEF IInv, WaitingKnown
    <2> QED
      BY <2>3, <2>4
  <1>23. InEveryCopy'
    <2>1. accepted \subseteq Mutations
      BY DEF IInv, QueueTypeOK
    <2>2. \A m \in Waiting : m \in Waiting' \/ applied'[m] > 0
      BY <1>9, <1>20
    <2> QED
      BY <1>1, <1>16, <1>21, <2>1, <2>2 DEF IInv, InEveryCopy
  <1>24. RepeatsExplained'
    <2> SUFFICES ASSUME NEW m \in Mutations, applied'[m] > 1
                 PROVE  m \in repeatable'
      BY <1>1 DEF RepeatsExplained
    <2>1. repeatable \subseteq repeatable'
      BY <1>20
    <2>2. CASE m # h
      BY <1>9, <2>1, <2>2 DEF IInv, RepeatsExplained
    <2>3. CASE m = h
      <3>1. applied[h] > 0
        BY <1>9, <2>3
      <3>2. h \in Waiting
        BY <1>19
      <3> QED
        BY <2>1, <2>3, <3>1, <3>2 DEF IInv, WaitingKnown
    <2> QED
      BY <2>2, <2>3
  <1> QED
    BY <1>15, <1>17, <1>18, <1>22, <1>23, <1>24 DEF IInv

LEMMA SyncDoneStep ==
    ASSUME IInv, SyncDone
    PROVE  IInv'
  <1>1. /\ syncing = <<>> /\ stored' = remaining /\ syncing' = Nothing /\ remaining' = <<>>
        /\ UNCHANGED <<online, issued, enqueuing, applied, accepted, evicted, exposed, repeatable>>
    BY DEF SyncDone
  <1>2. IsSyncing /\ ~IsSyncing'
    <2>1. <<>> \in Seq(Mutations)
      OBVIOUS
    <2> QED
      BY <1>1, <2>1, NothingApart DEF IsSyncing
  <1>3. /\ remaining \in Seq(Mutations) /\ Len(remaining) \in Nat /\ Len(syncing) = 0
        /\ ToSet(syncing) = {}
    BY <1>1 DEF IInv, QueueTypeOK, ToSet
  <1>4. Len(remaining) <= MaxQueue
    <2>1. Len(remaining) + Len(syncing) <= MaxQueue
      BY <1>2 DEF IInv, InOrder
    <2> QED
      BY <1>3, <2>1
  <1>5. QueueTypeOK'
    BY <1>1, <1>3 DEF IInv, QueueTypeOK
  <1>6. Enqueuing' = Enqueuing
    BY <1>1 DEF Enqueuing
  <1>7. InOrder'
    <2>1. Ordered(<<>>) /\ UpTo(<<>>, issued)
      BY DEF Ordered, UpTo
    <2> QED
      BY <1>1, <1>2, <1>4, <1>6, <2>1 DEF IInv, InOrder
  <1>8. Waiting = ToSet(remaining) /\ Waiting' = ToSet(remaining)
    BY <1>1, <1>2, <1>3 DEF Waiting
  <1>9. Unwritten' /\ InEveryCopy' /\ WaitingKnown'
    BY <1>1, <1>6, <1>8 DEF IInv, Unwritten, InEveryCopy, WaitingKnown
  <1>10. Unmade' /\ RepeatsExplained'
    BY <1>1 DEF IInv, Unmade, RepeatsExplained
  <1> QED
    BY <1>5, <1>7, <1>9, <1>10 DEF IInv

LEMMA KillStep ==
    ASSUME IInv, Kill
    PROVE  IInv'
  <1>1. /\ enqueuing' = [m \in Mutations |-> Nothing] /\ syncing' = Nothing /\ remaining' = <<>>
        /\ repeatable' = IF IsSyncing
                         THEN repeatable \union (ToSet(stored) \ ToSet(remaining \o syncing))
                         ELSE repeatable
        /\ UNCHANGED <<online, issued, stored, applied, accepted, evicted, exposed>>
    BY DEF Kill
  <1>2. Enqueuing' = {} /\ ~IsSyncing' /\ Waiting' = ToSet(stored)
    BY <1>1 DEF Enqueuing, IsSyncing, Waiting
  <1>3. ToSet(stored) \subseteq Mutations
    BY SetOfMutations DEF IInv, QueueTypeOK
  <1>4. IsSyncing => ToSet(remaining \o syncing) = Waiting
    BY ConcatSet DEF IInv, QueueTypeOK, IsSyncing, Waiting
  <1>5. QueueTypeOK'
    <2>1. repeatable' \subseteq Mutations
      BY <1>1, <1>3 DEF IInv, QueueTypeOK
    <2>2. <<>> \in Seq(Mutations)
      OBVIOUS
    <2> QED
      BY <1>1, <2>1, <2>2 DEF IInv, QueueTypeOK
  <1>6. InOrder'
    <2>1. Ordered(<<>>) /\ UpTo(<<>>, issued)
      BY DEF Ordered, UpTo
    <2> QED
      BY <1>1, <1>2, <2>1 DEF IInv, InOrder
  <1>7. WaitingKnown'
    <2> SUFFICES ASSUME NEW m \in ToSet(stored), applied[m] > 0
                 PROVE  m \in repeatable'
      BY <1>1, <1>2 DEF WaitingKnown
    <2>1. m \in Waiting => m \in repeatable
      BY DEF IInv, WaitingKnown
    <2>2. CASE IsSyncing
      BY <1>1, <1>4, <2>1, <2>2
    <2>3. CASE ~IsSyncing
      BY <1>1, <2>1, <2>3 DEF Waiting
    <2> QED
      BY <2>2, <2>3
  <1>8. Unmade' /\ Unwritten' /\ InEveryCopy' /\ RepeatsExplained'
    BY <1>1, <1>2 DEF IInv, Unmade, Unwritten, InEveryCopy, RepeatsExplained
  <1> QED
    BY <1>5, <1>6, <1>7, <1>8 DEF IInv

LEMMA QueueNextInv == IInv /\ [QueueNext]_queueVars => IInv'
  <1> SUFFICES ASSUME IInv, [QueueNext]_queueVars
               PROVE  IInv'
    OBVIOUS
  <1>1. CASE EnqueueRead
    BY <1>1, EnqueueReadStep
  <1>2. CASE \E m \in Mutations : EnqueueWrite(m)
    BY <1>2, EnqueueWriteStep
  <1>3. CASE MutateOnline
    BY <1>3, MutateOnlineStep
  <1>4. CASE (\E reachable \in BOOLEAN : NetInfoConnected(reachable)) \/ NetInfoDisconnected
    BY <1>4, NetInfoStep
  <1>5. CASE Replayed \/ \E lost \in BOOLEAN : ReplayFailed(lost)
    BY <1>5, ReplayStep
  <1>6. CASE SyncDone
    BY <1>6, SyncDoneStep
  <1>7. CASE Kill
    BY <1>7, KillStep
  <1>8. CASE UNCHANGED queueVars
    <2>1. Enqueuing' = Enqueuing /\ IsSyncing' = IsSyncing /\ Waiting' = Waiting
      BY <1>8 DEF queueVars, Enqueuing, IsSyncing, Waiting
    <2> QED
      BY <1>8, <2>1 DEF queueVars, IInv, QueueTypeOK, InOrder, Unmade, Unwritten,
                        InEveryCopy, WaitingKnown, RepeatsExplained
  <1> QED
    BY <1>1, <1>2, <1>3, <1>4, <1>5, <1>6, <1>7, <1>8 DEF QueueNext

---------------------------------------------------------------------------
(* The theorems                                                            *)

LEMMA QueueInvariant == QueueSpec => []IInv
  BY QueueInitInv, QueueNextInv, PTL DEF QueueSpec

\* Every variable keeps its type: the queue never holds anything that was not
\* made.
THEOREM QueueTypeCorrect == QueueSpec => []QueueTypeOK
  BY QueueInvariant, PTL DEF IInv

\* Whatever reads and writes overlap, the stored queue is in the order in which
\* its mutations were made, holds none twice and respects the cap.
THEOREM QueueStoredInOrder == QueueSpec => []StoredInOrder
  <1>1. IInv => StoredInOrder
    BY DEF IInv, InOrder, Ordered, StoredInOrder
  <1> QED
    BY <1>1, QueueInvariant, PTL

\* No mutation the app said is queued is lost, whatever overlaps later and also
\* when the app is killed, but for those that were themselves queued during a sync
\* or beside another enqueue.
THEOREM QueueLosesNothing == QueueSpec => []NothingLost
  <1>1. IInv => NothingLost
    BY CopiesLoseNothing DEF IInv
  <1> QED
    BY <1>1, QueueInvariant, PTL

\* The server carries a mutation out twice only when an answer was lost, a sync
\* was killed, or an overlapping enqueue put the mutation back.
THEOREM QueueRepeatsExplained == QueueSpec => []RepeatsExplained
  BY QueueInvariant, PTL DEF IInv
============================================================================
