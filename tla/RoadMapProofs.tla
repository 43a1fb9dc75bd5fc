---------------------------- MODULE RoadMapProofs ----------------------------
(***************************************************************************)
(* Theorems about RoadMap, for any pool, any lines and any number of calls.*)
(***************************************************************************)
EXTENDS RoadMap, FiniteSetTheorems, SequenceTheorems, TLAPS

\* The types of what the calls share, and the account of the slots.
PoolOK ==
    /\ inFlight \in 0..MaxConcurrent
    /\ pending \in Seq(1..MaxCalls)
    /\ calls \in Seq(Call) /\ Len(calls) <= MaxCalls
    /\ SlotsAccounted

\* A line whose effect is still to run is mounted; the call that any other line
\* listens to is one for the pair it is mounted with.
EffectIsOfTheLine ==
    /\ \A l \in due : wanted[l] \in Pairs
    /\ \A l \in Lines \ due : effect[l] # 0 =>
           effect[l] \in DOMAIN calls /\ calls[effect[l]].pair = wanted[l]

RoadInv == RoadTypeOK /\ SlotsAccounted /\ EffectIsOfTheLine /\ LineDrawsItsPair

\* Calls are neither forgotten nor given another pair.
CallsKept ==
    /\ DOMAIN calls \subseteq DOMAIN calls'
    /\ \A d \in DOMAIN calls : calls'[d].pair = calls[d].pair

---------------------------------------------------------------------------
(* The slots                                                               *)

LEMMA StageFacts ==
    ASSUME PoolOK, NEW s
    PROVE  /\ DOMAIN calls = 1..Len(calls) /\ Len(calls) \in Nat
           /\ InStage(s) \subseteq 1..Len(calls)
           /\ IsFiniteSet(InStage(s)) /\ Cardinality(InStage(s)) \in Nat
  <1>1. DOMAIN calls = 1..Len(calls) /\ Len(calls) \in Nat
    BY DEF PoolOK
  <1>2. InStage(s) \subseteq 1..Len(calls)
    BY <1>1 DEF InStage
  <1>3. IsFiniteSet(InStage(s))
    <2>1. IsFiniteSet(1..Len(calls))
      BY <1>1, FS_Interval
    <2> QED
      BY <1>2, <2>1, FS_Subset
  <1> QED
    BY <1>1, <1>2, <1>3, FS_CardinalityType

LEMMA Joined ==
    ASSUME NEW S, NEW p \in Seq(S), NEW q \in Seq(S)
    PROVE  /\ (p \o q) \in Seq(S) /\ Len(p \o q) = Len(p) + Len(q)
           /\ DOMAIN (p \o q) = 1..(Len(p) + Len(q))
           /\ \A i \in 1..Len(p) : (p \o q)[i] = p[i]
           /\ \A i \in 1..Len(q) : (p \o q)[Len(p) + i] = q[i]
  <1>1. Len(p) \in Nat /\ Len(q) \in Nat
    OBVIOUS
  <1>2. \A i \in 1..(Len(p) + Len(q)) :
            (p \o q)[i] = IF i <= Len(p) THEN p[i] ELSE q[i - Len(p)]
    BY ConcatProperties
  <1>3. \A i \in 1..Len(q) : Len(p) + i \in 1..(Len(p) + Len(q)) /\ ~(Len(p) + i <= Len(p))
                             /\ (Len(p) + i) - Len(p) = i
    BY <1>1
  <1>4. \A i \in 1..Len(p) : i \in 1..(Len(p) + Len(q)) /\ i <= Len(p)
    BY <1>1
  <1>5. (p \o q) \in Seq(S) /\ Len(p \o q) = Len(p) + Len(q)
    BY ConcatProperties
  <1>6. DOMAIN (p \o q) = 1..(Len(p) + Len(q))
    BY <1>5
  <1> QED
    BY <1>2, <1>3, <1>4, <1>5, <1>6

LEMMA DisjointUnion ==
    ASSUME NEW S, NEW T, IsFiniteSet(S), IsFiniteSet(T), S \intersect T = {}
    PROVE  Cardinality(S \union T) = Cardinality(S) + Cardinality(T)
  <1>1. Cardinality(S \union T) = Cardinality(S) + Cardinality(T) - Cardinality(S \intersect T)
    BY FS_Union
  <1>2. Cardinality(S \intersect T) = 0
    BY FS_EmptySet
  <1>3. Cardinality(S) \in Nat /\ Cardinality(T) \in Nat
    BY FS_CardinalityType
  <1> QED
    BY <1>1, <1>2, <1>3

LEMMA StartStep ==
    ASSUME PoolOK, NEW ps \in Seq(Pairs), StartCalls(ps)
    PROVE  /\ PoolOK' /\ CallsKept
           /\ Len(calls') = Len(calls) + Len(ps) /\ Len(ps) \in Nat
           /\ \A i \in 1..Len(ps) : calls'[Len(calls) + i].pair = ps[i]
  <1> DEFINE n == Len(calls)
             k == IF Len(ps) <= FreeSlots THEN Len(ps) ELSE FreeSlots
             m == Len(ps)
             new == [i \in 1..m |-> [pair |-> ps[i], attempt |-> 1,
                                     stage |-> IF i <= k THEN "fetching" ELSE "waiting"]]
             wait == [i \in 1..(m - k) |-> n + k + i]
  <1>1. /\ MaxConcurrent \in Nat \ {0} /\ MaxCalls \in Nat
        /\ inFlight \in Nat /\ inFlight <= MaxConcurrent
        /\ n \in Nat /\ n <= MaxCalls /\ m \in Nat
        /\ DOMAIN calls = 1..n
    BY RoadAssumption DEF PoolOK, RoadAssumption
  <1>2. FreeSlots = MaxConcurrent - inFlight /\ FreeSlots \in Nat
    BY <1>1 DEF FreeSlots
  <1>3. k \in Nat /\ k <= m /\ k <= FreeSlots /\ (k < m => k = FreeSlots)
    BY <1>1, <1>2
  <1>4. n + m <= MaxCalls /\ inFlight' = inFlight + k
        /\ pending' = pending \o wait /\ calls' = calls \o new
    BY DEF StartCalls
  <1>5. new \in Seq(Call) /\ Len(new) = m
    <2>1. \A i \in 1..m : ps[i] \in Pairs
      OBVIOUS
    <2>2. new \in [1..m -> Call]
      BY <2>1 DEF Call
    <2> QED
      BY <1>1, <2>2
  <1>6. wait \in Seq(1..MaxCalls) /\ Len(wait) = m - k
    <2>1. \A i \in 1..(m - k) : n + k + i \in 1..MaxCalls
      <3>1. n + m <= MaxCalls
        BY <1>4
      <3> HIDE DEF n, k, m
      <3> QED
        BY <1>1, <1>3, <3>1
    <2>2. wait \in [1..(m - k) -> 1..MaxCalls]
      BY <2>1
    <2> QED
      BY <1>1, <1>3, <2>2
  <1>7. /\ \A i \in 1..m : /\ new[i].pair = ps[i]
                           /\ new[i].stage = IF i <= k THEN "fetching" ELSE "waiting"
        /\ \A i \in 1..(m - k) : wait[i] = n + k + i
    OBVIOUS
  <1>8. pending \in Seq(1..MaxCalls) /\ calls \in Seq(Call) /\ Len(pending) \in Nat
    BY DEF PoolOK
  <1> HIDE DEF n, k, m, new, wait
  <1>9. /\ calls' \in Seq(Call) /\ Len(calls') = n + m
        /\ DOMAIN calls' = 1..(n + m)
        /\ \A d \in 1..n : calls'[d] = calls[d]
        /\ \A i \in 1..m : calls'[n + i] = new[i]
    <2>1. n = Len(calls)
      BY DEF n
    <2> DEFINE all == calls \o new
    <2>2. /\ all \in Seq(Call) /\ Len(all) = Len(calls) + Len(new)
          /\ DOMAIN all = 1..(Len(calls) + Len(new))
          /\ \A i \in 1..Len(calls) : all[i] = calls[i]
          /\ \A i \in 1..Len(new) : all[Len(calls) + i] = new[i]
      <3>1. all \in Seq(Call) /\ Len(all) = Len(calls) + Len(new)
        BY <1>5, <1>8, Joined
      <3>2. DOMAIN all = 1..(Len(calls) + Len(new))
        BY <1>5, <1>8, Joined
      <3>3. \A i \in 1..Len(calls) : all[i] = calls[i]
        BY <1>5, <1>8, Joined
      <3>4. \A i \in 1..Len(new) : all[Len(calls) + i] = new[i]
        BY <1>5, <1>8, Joined
      <3> QED
        BY <3>1, <3>2, <3>3, <3>4
    <2>3. calls' = all
      BY <1>4
    <2> HIDE DEF all
    <2>4. calls' \in Seq(Call) /\ Len(calls') = n + m /\ DOMAIN calls' = 1..(n + m)
      BY <1>5, <2>1, <2>2, <2>3
    <2> QED
      BY <1>5, <2>1, <2>2, <2>3, <2>4
  <1>10. /\ pending' \in Seq(1..MaxCalls)
         /\ DOMAIN pending' = 1..(Len(pending) + (m - k)) /\ DOMAIN pending = 1..Len(pending)
         /\ \A i \in 1..Len(pending) : pending'[i] = pending[i]
         /\ \A i \in 1..(m - k) : pending'[Len(pending) + i] = n + k + i
    <2>1. /\ (pending \o wait) \in Seq(1..MaxCalls)
          /\ DOMAIN (pending \o wait) = 1..(Len(pending) + Len(wait))
          /\ \A i \in 1..Len(pending) : (pending \o wait)[i] = pending[i]
          /\ \A i \in 1..Len(wait) : (pending \o wait)[Len(pending) + i] = wait[i]
      BY <1>6, <1>8, Joined
    <2>2. /\ pending' \in Seq(1..MaxCalls)
          /\ DOMAIN pending' = 1..(Len(pending) + (m - k))
          /\ \A i \in 1..Len(pending) : pending'[i] = pending[i]
          /\ \A i \in 1..(m - k) : pending'[Len(pending) + i] = wait[i]
      BY <1>4, <1>6, <2>1
    <2> QED
      BY <1>7, <1>8, <2>2
  <1>11. \A d \in DOMAIN calls' :
            \/ d \in DOMAIN calls /\ calls'[d] = calls[d]
            \/ d \in (n + 1)..(n + k) /\ calls'[d].stage = "fetching"
            \/ d \in (n + k + 1)..(n + m) /\ calls'[d].stage = "waiting"
    <2> SUFFICES ASSUME NEW d \in 1..(n + m), d > n
                 PROVE  \/ d \in (n + 1)..(n + k) /\ calls'[d].stage = "fetching"
                        \/ d \in (n + k + 1)..(n + m) /\ calls'[d].stage = "waiting"
      BY <1>1, <1>9
    <2>1. d - n \in 1..m /\ n + (d - n) = d
      BY <1>1
    <2>2. calls'[d].stage = IF d - n <= k THEN "fetching" ELSE "waiting"
      BY <1>7, <1>9, <2>1
    <2> QED
      BY <1>1, <1>3, <2>1, <2>2
  <1>12. /\ \A d \in (n + 1)..(n + k) : d \in DOMAIN calls' /\ calls'[d].stage = "fetching"
         /\ \A d \in (n + k + 1)..(n + m) : d \in DOMAIN calls' /\ calls'[d].stage = "waiting"
         /\ \A d \in DOMAIN calls : d \in DOMAIN calls' /\ calls'[d] = calls[d]
    <2>1. \A d \in (n + 1)..(n + m) : d \in DOMAIN calls' /\ d \notin DOMAIN calls
      BY <1>1, <1>9
    <2>2. \A d \in (n + 1)..(n + k) : d \in (n + 1)..(n + m) /\ d \notin (n + k + 1)..(n + m)
      BY <1>1, <1>3
    <2>3. \A d \in (n + k + 1)..(n + m) : d \in (n + 1)..(n + m) /\ d \notin (n + 1)..(n + k)
      BY <1>1, <1>3
    <2>4. \A d \in DOMAIN calls : d \in DOMAIN calls' /\ calls'[d] = calls[d]
      BY <1>1, <1>9
    <2> QED
      BY <1>11, <2>1, <2>2, <2>3, <2>4
  <1>13. InStage("fetching")' = InStage("fetching") \union ((n + 1)..(n + k))
    BY <1>11, <1>12 DEF InStage
  <1>14. InStage("waiting")' = InStage("waiting") \union ((n + k + 1)..(n + m))
    BY <1>11, <1>12 DEF InStage
  <1>15. inFlight' = Cardinality(InStage("fetching")')
    <2>1. IsFiniteSet((n + 1)..(n + k)) /\ Cardinality((n + 1)..(n + k)) = k
      BY <1>1, <1>3, FS_Interval
    <2>2. InStage("fetching") \intersect ((n + 1)..(n + k)) = {}
      BY <1>1 DEF InStage
    <2>3. IsFiniteSet(InStage("fetching")) /\ Cardinality(InStage("fetching")) \in Nat
      BY StageFacts
    <2>4. Cardinality(InStage("fetching") \union ((n + 1)..(n + k)))
            = Cardinality(InStage("fetching")) + k
      BY <1>3, <2>1, <2>2, <2>3, DisjointUnion
    <2> QED
      BY <1>4, <1>13, <2>4 DEF PoolOK, SlotsAccounted
  <1>16. {pending'[i] : i \in DOMAIN pending'} = InStage("waiting")'
    <2>1. {pending[i] : i \in DOMAIN pending} = InStage("waiting")
      BY DEF PoolOK, SlotsAccounted
    <2>2. \A i \in DOMAIN pending' :
              pending'[i] \in InStage("waiting") \union ((n + k + 1)..(n + m))
      <3>1. \A i \in DOMAIN pending' : i \in DOMAIN pending
                \/ (i - Len(pending) \in 1..(m - k)
                    /\ Len(pending) + (i - Len(pending)) = i)
        BY <1>1, <1>3, <1>8, <1>10
      <3>2. \A i \in 1..(m - k) : n + k + i \in (n + k + 1)..(n + m)
        BY <1>1, <1>3
      <3>3. ASSUME NEW i \in DOMAIN pending', i \notin DOMAIN pending
            PROVE  pending'[i] \in (n + k + 1)..(n + m)
        BY <1>10, <3>1, <3>2, <3>3
      <3>4. ASSUME NEW i \in DOMAIN pending
            PROVE  pending'[i] \in InStage("waiting")
        BY <1>10, <2>1
      <3> QED
        BY <3>3, <3>4
    <2>3. \A d \in (n + k + 1)..(n + m) : d \in {pending'[i] : i \in DOMAIN pending'}
      <3> SUFFICES ASSUME NEW d \in (n + k + 1)..(n + m)
                   PROVE  \E i \in DOMAIN pending' : pending'[i] = d
        OBVIOUS
      <3>1. d - (n + k) \in 1..(m - k) /\ n + k + (d - (n + k)) = d
        BY <1>1, <1>3
      <3>2. Len(pending) + (d - (n + k)) \in DOMAIN pending'
        BY <1>1, <1>3, <1>8, <1>10, <3>1
      <3> QED
        BY <1>10, <3>1, <3>2
    <2>4. \A i \in DOMAIN pending : pending[i] \in {pending'[j] : j \in DOMAIN pending'}
      <3>1. \A i \in DOMAIN pending : i \in DOMAIN pending' /\ pending'[i] = pending[i]
        BY <1>1, <1>3, <1>8, <1>10
      <3> QED
        BY <3>1
    <2> QED
      BY <1>14, <2>1, <2>2, <2>3, <2>4
  <1>17. \A i, j \in DOMAIN pending' : i # j => pending'[i] # pending'[j]
    <2>1. \A i \in DOMAIN pending' :
            \/ i \in DOMAIN pending /\ pending'[i] = pending[i] /\ pending[i] \in 1..n
            \/ i \notin DOMAIN pending /\ pending'[i] = n + k + (i - Len(pending))
               /\ pending'[i] > n
      <3>1. \A i \in DOMAIN pending : pending[i] \in 1..n
        BY <1>1, StageFacts DEF PoolOK, SlotsAccounted, n
      <3>2. \A i \in DOMAIN pending' : i \notin DOMAIN pending =>
                i - Len(pending) \in 1..(m - k) /\ Len(pending) + (i - Len(pending)) = i
        BY <1>1, <1>3, <1>8, <1>10
      <3>3. ASSUME NEW i \in DOMAIN pending', i \notin DOMAIN pending
            PROVE  pending'[i] = n + k + (i - Len(pending)) /\ pending'[i] > n
        <4>1. pending'[i] = n + k + (i - Len(pending))
          BY <1>10, <3>2, <3>3
        <4> QED
          BY <1>1, <1>3, <3>2, <3>3, <4>1
      <3> QED
        BY <1>10, <3>1, <3>3
    <2>2. \A i, j \in DOMAIN pending : i # j => pending[i] # pending[j]
      BY DEF PoolOK, SlotsAccounted
    <2>3. \A i \in DOMAIN pending' : i \in Int
      BY <1>8, <1>10
    <2> SUFFICES ASSUME NEW i \in DOMAIN pending', NEW j \in DOMAIN pending', i # j
                 PROVE  pending'[i] # pending'[j]
      OBVIOUS
    <2>4. CASE i \in DOMAIN pending /\ j \in DOMAIN pending
      BY <2>1, <2>2, <2>4
    <2>5. CASE i \in DOMAIN pending /\ j \notin DOMAIN pending
      BY <1>1, <2>1, <2>5
    <2>6. CASE i \notin DOMAIN pending /\ j \in DOMAIN pending
      BY <1>1, <2>1, <2>6
    <2>7. CASE i \notin DOMAIN pending /\ j \notin DOMAIN pending
      BY <1>1, <1>3, <1>8, <2>1, <2>3, <2>7
    <2> QED
      BY <2>4, <2>5, <2>6, <2>7
  <1>18. pending' # <<>> => inFlight' = MaxConcurrent
    <2>1. CASE pending # <<>>
      <3>1. inFlight = MaxConcurrent
        BY <2>1 DEF PoolOK, SlotsAccounted
      <3> QED
        BY <1>1, <1>2, <1>3, <1>4, <3>1
    <2>2. CASE k < m
      BY <1>1, <1>2, <1>3, <1>4, <2>2
    <2>3. CASE pending = <<>> /\ k = m
      <3>1. Len(pending') = 0
        BY <1>8, <1>10, <1>3, <1>1, <2>3
      <3> QED
        BY <1>10, <3>1
    <2> QED
      BY <1>1, <1>3, <2>1, <2>2, <2>3
  <1>19. inFlight' \in 0..MaxConcurrent
    BY <1>1, <1>2, <1>3, <1>4
  <1>20. SlotsAccounted'
    BY <1>15, <1>16, <1>17, <1>18 DEF SlotsAccounted
  <1>21. PoolOK'
    BY <1>1, <1>4, <1>9, <1>10, <1>19, <1>20 DEF PoolOK
  <1>22. CallsKept
    BY <1>12 DEF CallsKept
  <1>23. \A i \in 1..m : calls'[n + i].pair = ps[i]
    BY <1>7, <1>9
  <1> QED
    BY <1>1, <1>9, <1>21, <1>22, <1>23 DEF n, m

LEMMA CallMoved ==
    ASSUME NEW d \in Call, NEW t \in {"waiting", "fetching", "pause", "settled"}
    PROVE  /\ [d EXCEPT !.stage = t] \in Call /\ [d EXCEPT !.stage = t].stage = t
           /\ [d EXCEPT !.stage = t].pair = d.pair
  <1>1. [d EXCEPT !.stage = t] \in Call
    BY DEF Call
  <1>2. [d EXCEPT !.stage = t].stage = t /\ [d EXCEPT !.stage = t].pair = d.pair
    BY DEF Call
  <1> QED
    BY <1>1, <1>2

LEMMA TailFacts ==
    ASSUME NEW S, NEW q \in Seq(S), q # <<>>
    PROVE  /\ Tail(q) \in Seq(S) /\ Len(q) \in Nat \ {0} /\ DOMAIN q = 1..Len(q)
           /\ DOMAIN Tail(q) = 1..(Len(q) - 1)
           /\ \A i \in DOMAIN Tail(q) : i + 1 \in DOMAIN q /\ i + 1 # 1 /\ Tail(q)[i] = q[i + 1]
           /\ 1 \in DOMAIN q /\ Head(q) = q[1]
  <1>1. Tail(q) \in Seq(S) /\ Len(q) \in Nat \ {0} /\ DOMAIN q = 1..Len(q)
    OBVIOUS
  <1>2. DOMAIN Tail(q) = 1..(Len(q) - 1)
    OBVIOUS
  <1>3. \A i \in 1..(Len(q) - 1) : Tail(q)[i] = q[i + 1]
    OBVIOUS
  <1>4. \A i \in 1..(Len(q) - 1) : i + 1 \in 1..Len(q) /\ i + 1 # 1
    BY <1>1
  <1>5. 1 \in DOMAIN q /\ Head(q) = q[1]
    BY <1>1
  <1> QED
    BY <1>1, <1>2, <1>3, <1>4, <1>5

\* A fetch ends: the first of the waiting calls, if there is one, has its slot.
LEMMA ReleaseStep ==
    ASSUME PoolOK, NEW c \in DOMAIN calls, calls[c].stage = "fetching",
           NEW s \in {"settled", "pause"}, calls' = Released(c, s), ReleaseSlot
    PROVE  PoolOK' /\ CallsKept
  <1>1. /\ MaxConcurrent \in Nat \ {0} /\ MaxCalls \in Nat
        /\ inFlight \in Nat /\ inFlight <= MaxConcurrent
        /\ pending \in Seq(1..MaxCalls) /\ calls \in Seq(Call)
        /\ Len(calls) \in Nat /\ Len(calls) <= MaxCalls /\ DOMAIN calls = 1..Len(calls)
    BY RoadAssumption DEF PoolOK, RoadAssumption
  <1>2. /\ inFlight = Cardinality(InStage("fetching"))
        /\ {pending[i] : i \in DOMAIN pending} = InStage("waiting")
        /\ \A i, j \in DOMAIN pending : i # j => pending[i] # pending[j]
        /\ pending # <<>> => inFlight = MaxConcurrent
    BY DEF PoolOK, SlotsAccounted
  <1>3. \A d \in DOMAIN calls : calls[d] \in Call
    BY <1>1
  <1>4. DOMAIN calls' = DOMAIN calls
    BY DEF Released
  <1>5. calls'[c] = [calls[c] EXCEPT !.stage = s]
    BY DEF Released
  <1>6. \A d \in DOMAIN calls : d # c =>
            calls'[d] = IF pending # <<>> /\ d = Head(pending)
                        THEN [calls[d] EXCEPT !.stage = "fetching"] ELSE calls[d]
    BY DEF Released
  <1>7. \A d \in DOMAIN calls : \A t \in {"fetching", "settled", "pause"} :
            /\ [calls[d] EXCEPT !.stage = t] \in Call
            /\ [calls[d] EXCEPT !.stage = t].stage = t
            /\ [calls[d] EXCEPT !.stage = t].pair = calls[d].pair
    <2> SUFFICES ASSUME NEW d \in DOMAIN calls, NEW t \in {"fetching", "settled", "pause"}
                 PROVE  /\ [calls[d] EXCEPT !.stage = t] \in Call
                        /\ [calls[d] EXCEPT !.stage = t].stage = t
                        /\ [calls[d] EXCEPT !.stage = t].pair = calls[d].pair
      OBVIOUS
    <2>1. calls[d] \in Call /\ t \in {"waiting", "fetching", "pause", "settled"}
      BY <1>3
    <2> QED
      BY <2>1, CallMoved
  <1>8. \A d \in DOMAIN calls : calls'[d] \in Call /\ calls'[d].pair = calls[d].pair
    <2>1. calls'[c] \in Call /\ calls'[c].pair = calls[c].pair
      <3>1. calls[c] \in Call /\ s \in {"waiting", "fetching", "pause", "settled"}
        BY <1>3
      <3> DEFINE ended == [calls[c] EXCEPT !.stage = s]
      <3>2. ended \in Call
        BY <3>1, CallMoved
      <3>3. ended.pair = calls[c].pair
        BY <3>1, CallMoved
      <3>4. calls'[c] = ended
        BY <1>5
      <3> QED
        BY <3>2, <3>3, <3>4
    <2>2. ASSUME NEW d \in DOMAIN calls, d # c
          PROVE  calls'[d] \in Call /\ calls'[d].pair = calls[d].pair
      <3>1. CASE pending # <<>> /\ d = Head(pending)
        <4>1. calls'[d] = [calls[d] EXCEPT !.stage = "fetching"]
          BY <1>6, <2>2, <3>1
        <4> QED
          BY <1>7, <4>1
      <3>2. CASE ~(pending # <<>> /\ d = Head(pending))
        <4>1. calls'[d] = calls[d]
          BY <1>6, <2>2, <3>2
        <4> QED
          BY <1>3, <4>1
      <3> QED
        BY <3>1, <3>2
    <2> QED
      BY <2>1, <2>2
  <1>9. calls' \in Seq(Call) /\ Len(calls') = Len(calls)
    <2>1. calls' = [d \in 1..Len(calls) |-> calls'[d]]
      BY <1>1, <1>4 DEF Released
    <2>2. calls' \in [1..Len(calls) -> Call]
      BY <1>1, <1>8, <2>1
    <2> QED
      BY <1>1, <2>2
  <1>10. calls'[c].stage = s
    BY <1>5, <1>7
  <1>11. IsFiniteSet(InStage("fetching")) /\ Cardinality(InStage("fetching")) \in Nat
    BY StageFacts
  <1>12. c \in InStage("fetching") /\ c \notin InStage("waiting")
    BY DEF InStage
  <1>13. inFlight >= 1
    <2>1. Cardinality(InStage("fetching")) # 0
      BY <1>11, <1>12, FS_EmptySet
    <2> QED
      BY <1>1, <1>2, <2>1
  <1>14. SlotsAccounted' /\ inFlight' \in 0..MaxConcurrent /\ pending' \in Seq(1..MaxCalls)
    <2>1. CASE pending = <<>>
      <3>1. inFlight' = inFlight - 1 /\ pending' = <<>>
        BY <2>1 DEF ReleaseSlot
      <3>2. InStage("fetching")' = InStage("fetching") \ {c}
        BY <1>4, <1>6, <1>10, <2>1 DEF InStage
      <3>3. InStage("waiting")' = InStage("waiting")
        BY <1>4, <1>6, <1>10, <1>12, <2>1 DEF InStage
      <3>4. Cardinality(InStage("fetching")') = inFlight - 1
        BY <1>2, <1>11, <1>12, <3>2, FS_RemoveElement
      <3>5. {pending'[i] : i \in DOMAIN pending'} = InStage("waiting")'
        BY <1>2, <2>1, <3>1, <3>3
      <3> QED
        BY <1>1, <1>2, <1>13, <2>1, <3>1, <3>4, <3>5 DEF SlotsAccounted
    <2>2. CASE pending # <<>>
      <3> DEFINE h == Head(pending)
      <3>1. inFlight' = inFlight /\ pending' = Tail(pending)
        BY <2>2 DEF ReleaseSlot
      <3>2. /\ pending' \in Seq(1..MaxCalls)
            /\ Len(pending) \in Nat \ {0} /\ DOMAIN pending = 1..Len(pending)
            /\ DOMAIN pending' = 1..(Len(pending) - 1)
            /\ \A i \in DOMAIN pending' :
                  i + 1 \in DOMAIN pending /\ i + 1 # 1 /\ pending'[i] = pending[i + 1]
            /\ 1 \in DOMAIN pending /\ h = pending[1]
        BY <1>1, <2>2, <3>1, TailFacts
      <3> HIDE DEF h
      <3>3. h \in InStage("waiting") /\ h # c /\ h \in DOMAIN calls
        BY <1>2, <1>12, <3>2 DEF InStage
      <3>4. /\ calls'[h].stage = "fetching"
            /\ \A d \in DOMAIN calls : d # c /\ d # h => calls'[d] = calls[d]
        BY <1>6, <1>7, <2>2, <3>3 DEF h
      <3>5. InStage("fetching")' = (InStage("fetching") \ {c}) \union {h}
        BY <1>4, <1>10, <3>3, <3>4 DEF InStage
      <3>6. InStage("waiting")' = InStage("waiting") \ {h}
        BY <1>4, <1>10, <1>12, <3>3, <3>4 DEF InStage
      <3>7. Cardinality(InStage("fetching")') = inFlight
        <4>1. /\ IsFiniteSet(InStage("fetching") \ {c})
              /\ Cardinality(InStage("fetching") \ {c}) = inFlight - 1
          BY <1>2, <1>11, <1>12, FS_RemoveElement
        <4>2. h \notin InStage("fetching") \ {c}
          BY <3>3 DEF InStage
        <4> DEFINE F == InStage("fetching") \ {c}
        <4> HIDE DEF F
        <4>3. Cardinality(F \union {h}) = (inFlight - 1) + 1
          <5>1. IsFiniteSet(F) /\ Cardinality(F) = inFlight - 1 /\ h \notin F
            BY <4>1, <4>2 DEF F
          <5> QED
            BY <5>1, FS_AddElement
        <4>4. InStage("fetching")' = F \union {h}
          BY <3>5 DEF F
        <4>5. (inFlight - 1) + 1 = inFlight
          BY <1>1
        <4> QED
          BY <4>3, <4>4, <4>5, Zenon
      <3>8. {pending'[i] : i \in DOMAIN pending'} = InStage("waiting")'
        <4>1. \A i \in DOMAIN pending' : pending'[i] \in InStage("waiting") \ {h}
          <5>1. \A i \in DOMAIN pending' : pending'[i] # h
            BY <1>2, <3>2
          <5>2. \A i \in DOMAIN pending' : pending'[i] \in InStage("waiting")
            BY <1>2, <3>2
          <5> QED
            BY <5>1, <5>2
        <4>2. \A d \in InStage("waiting") \ {h} : \E i \in DOMAIN pending' : pending'[i] = d
          <5> SUFFICES ASSUME NEW d \in InStage("waiting"), d # h
                       PROVE  \E i \in DOMAIN pending' : pending'[i] = d
            OBVIOUS
          <5>1. PICK j \in DOMAIN pending : pending[j] = d
            BY <1>2
          <5>2. j # 1
            BY <3>2, <5>1
          <5>3. j - 1 \in DOMAIN pending' /\ (j - 1) + 1 = j
            BY <3>2, <5>2
          <5> QED
            BY <3>2, <5>1, <5>3
        <4> QED
          BY <3>6, <4>1, <4>2
      <3>9. \A i, j \in DOMAIN pending' : i # j => pending'[i] # pending'[j]
        <4> SUFFICES ASSUME NEW i \in DOMAIN pending', NEW j \in DOMAIN pending', i # j
                     PROVE  pending'[i] # pending'[j]
          OBVIOUS
        <4>1. i + 1 \in DOMAIN pending /\ j + 1 \in DOMAIN pending /\ i + 1 # j + 1
          BY <3>2
        <4> QED
          BY <1>2, <3>2, <4>1
      <3> QED
        BY <1>1, <1>2, <2>2, <3>1, <3>2, <3>7, <3>8, <3>9 DEF SlotsAccounted
    <2> QED
      BY <2>1, <2>2
  <1> QED
    BY <1>1, <1>4, <1>8, <1>9, <1>14 DEF PoolOK, CallsKept

\* The second attempt: a free slot, or the end of the queue.
LEMMA RetryStep ==
    ASSUME PoolOK, NEW c \in DOMAIN calls, RetryRoute(c)
    PROVE  PoolOK' /\ CallsKept
  <1>1. /\ MaxConcurrent \in Nat \ {0} /\ MaxCalls \in Nat
        /\ inFlight \in Nat /\ inFlight <= MaxConcurrent
        /\ pending \in Seq(1..MaxCalls) /\ calls \in Seq(Call)
        /\ Len(calls) \in Nat /\ Len(calls) <= MaxCalls /\ DOMAIN calls = 1..Len(calls)
    BY RoadAssumption DEF PoolOK, RoadAssumption
  <1>2. /\ inFlight = Cardinality(InStage("fetching"))
        /\ {pending[i] : i \in DOMAIN pending} = InStage("waiting")
        /\ \A i, j \in DOMAIN pending : i # j => pending[i] # pending[j]
        /\ pending # <<>> => inFlight = MaxConcurrent
    BY DEF PoolOK, SlotsAccounted
  <1>3. calls[c] \in Call /\ calls[c].stage = "pause"
    BY <1>1 DEF RetryRoute
  <1>4. ASSUME NEW t \in {"fetching", "waiting"},
               calls' = [calls EXCEPT ![c] = SecondAttempt(c, t)]
        PROVE  /\ calls' \in Seq(Call) /\ Len(calls') = Len(calls)
               /\ DOMAIN calls' = DOMAIN calls /\ calls'[c].stage = t
               /\ \A d \in DOMAIN calls : d # c => calls'[d] = calls[d]
               /\ CallsKept
    <2> DEFINE r == SecondAttempt(c, t)
    <2>1. r \in Call /\ r.stage = t /\ r.pair = calls[c].pair
      BY <1>3 DEF Call, SecondAttempt
    <2>2. calls' = [calls EXCEPT ![c] = r]
      BY <1>4
    <2> HIDE DEF r
    <2>3. calls' \in Seq(Call) /\ Len(calls') = Len(calls) /\ DOMAIN calls' = DOMAIN calls
      BY <1>1, <2>1, <2>2
    <2>4. calls'[c] = r /\ \A d \in DOMAIN calls : d # c => calls'[d] = calls[d]
      BY <1>1, <2>2
    <2> QED
      BY <2>1, <2>3, <2>4 DEF CallsKept
  <1>5. c \notin InStage("fetching") /\ c \notin InStage("waiting")
    BY <1>3 DEF InStage
  <1>6. CASE FreeSlots > 0
    <2>1. /\ inFlight' = inFlight + 1 /\ pending' = pending
          /\ calls' = [calls EXCEPT ![c] = SecondAttempt(c, "fetching")]
      BY <1>6 DEF RetryRoute
    <2>2. /\ calls' \in Seq(Call) /\ Len(calls') = Len(calls)
          /\ DOMAIN calls' = DOMAIN calls /\ calls'[c].stage = "fetching"
          /\ \A d \in DOMAIN calls : d # c => calls'[d] = calls[d]
          /\ CallsKept
      BY <1>4, <2>1
    <2>3. inFlight < MaxConcurrent
      BY <1>1, <1>6 DEF FreeSlots
    <2>4. /\ InStage("fetching")' = InStage("fetching") \union {c}
          /\ InStage("waiting")' = InStage("waiting")
      BY <1>5, <2>2 DEF InStage
    <2>5. Cardinality(InStage("fetching")') = inFlight + 1
      BY <1>2, <1>5, <2>4, StageFacts, FS_AddElement
    <2>6. pending' = <<>>
      BY <1>1, <1>2, <2>1, <2>3
    <2>7. SlotsAccounted'
      BY <1>2, <2>1, <2>4, <2>5, <2>6 DEF SlotsAccounted
    <2> QED
      BY <1>1, <2>1, <2>2, <2>3, <2>7 DEF PoolOK
  <1>7. CASE ~(FreeSlots > 0)
    <2>1. /\ inFlight' = inFlight /\ pending' = Append(pending, c)
          /\ calls' = [calls EXCEPT ![c] = SecondAttempt(c, "waiting")]
      BY <1>7 DEF RetryRoute
    <2>2. /\ calls' \in Seq(Call) /\ Len(calls') = Len(calls)
          /\ DOMAIN calls' = DOMAIN calls /\ calls'[c].stage = "waiting"
          /\ \A d \in DOMAIN calls : d # c => calls'[d] = calls[d]
          /\ CallsKept
      BY <1>4, <2>1
    <2>3. inFlight = MaxConcurrent
      BY <1>1, <1>7 DEF FreeSlots
    <2>4. /\ InStage("fetching")' = InStage("fetching")
          /\ InStage("waiting")' = InStage("waiting") \union {c}
      BY <1>5, <2>2 DEF InStage
    <2>5. c \in 1..MaxCalls
      BY <1>1
    <2>6. /\ pending' \in Seq(1..MaxCalls) /\ Len(pending) \in Nat
          /\ DOMAIN pending = 1..Len(pending) /\ DOMAIN pending' = 1..(Len(pending) + 1)
          /\ pending'[Len(pending) + 1] = c
          /\ \A i \in 1..Len(pending) : pending'[i] = pending[i]
      BY <1>1, <2>1, <2>5
    <2>7. \A i \in DOMAIN pending' :
              (i \in DOMAIN pending /\ pending'[i] = pending[i])
              \/ (i = Len(pending) + 1 /\ pending'[i] = c)
      BY <2>6
    <2>8. \A i \in DOMAIN pending : pending[i] # c
      BY <1>2, <1>5
    <2>9. {pending'[i] : i \in DOMAIN pending'} = InStage("waiting")'
      <3>1. \A i \in DOMAIN pending' : pending'[i] \in InStage("waiting") \union {c}
        BY <1>2, <2>7
      <3>2. \A i \in DOMAIN pending : \E j \in DOMAIN pending' : pending'[j] = pending[i]
        BY <2>6
      <3>3. \E j \in DOMAIN pending' : pending'[j] = c
        BY <2>6
      <3> QED
        BY <1>2, <2>4, <3>1, <3>2, <3>3
    <2>10. \A i, j \in DOMAIN pending' : i # j => pending'[i] # pending'[j]
      BY <1>2, <2>7, <2>8
    <2>11. SlotsAccounted'
      BY <1>2, <2>1, <2>3, <2>4, <2>9, <2>10 DEF SlotsAccounted
    <2> QED
      BY <1>1, <2>1, <2>2, <2>6, <2>11 DEF PoolOK
  <1> QED
    BY <1>6, <1>7

---------------------------------------------------------------------------
(* The lines, the live map and the invariant                               *)

\* The types of what the lines and the live map keep.
UsersTypeOK ==
    /\ routeCache \subseteq Pairs
    /\ wanted \in [Lines -> Pairs \union {NoPair}]
    /\ due \subseteq Lines
    /\ effect \in [Lines -> 0..MaxCalls]
    /\ geometry \in [Lines -> Pairs \union {NoPair}]
    /\ entities \subseteq Pairs
    /\ routed \subseteq Pairs
    /\ batches \subseteq SUBSET (1..MaxCalls)

LEMMA InvIsPoolAndUsers ==
    /\ RoadInv <=> PoolOK /\ UsersTypeOK /\ EffectIsOfTheLine /\ LineDrawsItsPair
    /\ RoadInv' <=> PoolOK' /\ UsersTypeOK' /\ EffectIsOfTheLine' /\ LineDrawsItsPair'
  BY DEF RoadInv, RoadTypeOK, PoolOK, UsersTypeOK

LEMMA RoadInvInit == RoadInit => RoadInv
  <1> SUFFICES ASSUME RoadInit PROVE RoadInv
    OBVIOUS
  <1> USE RoadAssumption DEF RoadAssumption
  <1>1. calls = <<>> /\ pending = <<>> /\ inFlight = 0
    BY DEF RoadInit
  <1>2. <<>> \in Seq(Call) /\ <<>> \in Seq(1..MaxCalls) /\ Len(<<>>) = 0
    OBVIOUS
  <1>3. SlotsAccounted
    <2>1. InStage("fetching") = {} /\ InStage("waiting") = {}
      BY <1>1 DEF InStage
    <2> QED
      BY <1>1, <2>1, FS_EmptySet DEF SlotsAccounted
  <1>4. PoolOK
    BY <1>1, <1>2, <1>3 DEF PoolOK
  <1>5. UsersTypeOK
    BY DEF RoadInit, UsersTypeOK
  <1>6. EffectIsOfTheLine /\ LineDrawsItsPair
    BY DEF RoadInit, EffectIsOfTheLine, LineDrawsItsPair
  <1> QED
    BY <1>4, <1>5, <1>6, InvIsPoolAndUsers

LEMMA EffectKept ==
    ASSUME EffectIsOfTheLine, CallsKept, UNCHANGED <<wanted, due, effect>>
    PROVE  EffectIsOfTheLine'
  BY DEF EffectIsOfTheLine, CallsKept

\* An answer reaches the line that listens to its call.
LEMMA DrawStep ==
    ASSUME EffectIsOfTheLine, LineDrawsItsPair, UsersTypeOK, NEW c \in DOMAIN calls,
           c # 0, NEW result \in Pairs \union {NoPair},
           result # NoPair => result = calls[c].pair,
           Draw(c, result), UNCHANGED <<wanted, due>>
    PROVE  LineDrawsItsPair' /\ geometry' \in [Lines -> Pairs \union {NoPair}]
  <1>1. \A l \in Lines : geometry'[l] = IF effect[l] = c THEN result ELSE geometry[l]
    BY DEF Draw
  <1>2. \A l \in Lines \ due : effect[l] = c => calls[c].pair = wanted[l]
    BY DEF EffectIsOfTheLine
  <1>3. LineDrawsItsPair'
    BY <1>1, <1>2 DEF LineDrawsItsPair
  <1>4. geometry' \in [Lines -> Pairs \union {NoPair}]
    BY DEF Draw, UsersTypeOK
  <1> QED
    BY <1>3, <1>4

LEMMA AnswerStep ==
    ASSUME RoadInv, NEW c \in DOMAIN calls, RouteFound(c) \/ RouteFailed(c)
    PROVE  RoadInv'
  <1>1. PoolOK /\ UsersTypeOK /\ EffectIsOfTheLine /\ LineDrawsItsPair
    BY InvIsPoolAndUsers
  <1>2. /\ calls[c].stage = "fetching" /\ ReleaseSlot
        /\ \E s \in {"settled", "pause"} : calls' = Released(c, s)
        /\ UNCHANGED <<wanted, due, effect, entities, routed, batches>>
    BY DEF RouteFound, RouteFailed, mapVars
  <1>3. PoolOK' /\ CallsKept
    BY <1>1, <1>2, ReleaseStep
  <1>4. EffectIsOfTheLine'
    BY <1>1, <1>2, <1>3, EffectKept
  <1>5. calls[c].pair \in Pairs /\ c # 0 /\ NoPair \notin Pairs
    <2>1. calls \in Seq(Call)
      BY <1>1 DEF PoolOK
    <2>2. calls[c] \in Call /\ c # 0
      BY <2>1
    <2> QED
      BY <2>2, RoadAssumption DEF Call, RoadAssumption
  <1>6. LineDrawsItsPair' /\ geometry' \in [Lines -> Pairs \union {NoPair}]
    <2>1. CASE RouteFound(c)
      BY <1>1, <1>2, <1>5, <2>1, DrawStep DEF RouteFound
    <2>2. CASE RouteFailed(c) /\ calls[c].attempt = 1
      BY <1>1, <1>2, <2>2 DEF RouteFailed, LineDrawsItsPair, UsersTypeOK
    <2>3. CASE RouteFailed(c) /\ calls[c].attempt # 1
      BY <1>1, <1>2, <1>5, <2>3, DrawStep DEF RouteFailed
    <2> QED
      BY <2>1, <2>2, <2>3
  <1>7. routeCache' \subseteq Pairs
    BY <1>1, <1>5 DEF RouteFound, RouteFailed, UsersTypeOK
  <1>8. UsersTypeOK'
    BY <1>1, <1>2, <1>6, <1>7 DEF UsersTypeOK
  <1> QED
    BY <1>3, <1>4, <1>6, <1>8, InvIsPoolAndUsers

\* A line drawn with another pair has its effect due: nothing is claimed of it.
LEMMA ShowStep ==
    ASSUME RoadInv, NEW l \in Lines, NEW p \in Pairs, ShowLine(l, p)
    PROVE  RoadInv'
  <1>1. PoolOK /\ UsersTypeOK /\ EffectIsOfTheLine /\ LineDrawsItsPair
    BY InvIsPoolAndUsers
  <1>2. /\ wanted' = [wanted EXCEPT ![l] = p] /\ due' = due \union {l}
        /\ UNCHANGED <<effect, geometry, inFlight, pending, routeCache, calls,
                       entities, routed, batches>>
    BY DEF ShowLine, poolVars, mapVars
  <1>3. PoolOK'
    BY <1>1, <1>2 DEF PoolOK, SlotsAccounted, InStage
  <1>4. EffectIsOfTheLine' /\ LineDrawsItsPair' /\ UsersTypeOK'
    BY <1>1, <1>2 DEF EffectIsOfTheLine, LineDrawsItsPair, UsersTypeOK
  <1> QED
    BY <1>3, <1>4, InvIsPoolAndUsers

\* The effect listens to the call it makes itself, for the pair just drawn.
LEMMA RunEffectStep ==
    ASSUME RoadInv, NEW l \in Lines, RunEffect(l)
    PROVE  RoadInv'
  <1> DEFINE p == wanted[l]
  <1>1. PoolOK /\ UsersTypeOK /\ EffectIsOfTheLine /\ LineDrawsItsPair
    BY InvIsPoolAndUsers
  <1>2. /\ l \in due /\ due' = due \ {l} /\ p \in Pairs
        /\ UNCHANGED <<routeCache, wanted, entities, routed, batches>>
        /\ p # NoPair /\ MaxCalls \in Nat
    BY <1>1, RoadAssumption DEF RunEffect, mapVars, RoadAssumption, EffectIsOfTheLine
  <1>3. /\ wanted \in [Lines -> Pairs \union {NoPair}]
        /\ effect \in [Lines -> 0..MaxCalls]
        /\ geometry \in [Lines -> Pairs \union {NoPair}]
    BY <1>1 DEF UsersTypeOK
  <1>4. CASE p \in routeCache
    <2>1. /\ geometry' = [geometry EXCEPT ![l] = p] /\ effect' = [effect EXCEPT ![l] = 0]
          /\ UNCHANGED <<inFlight, pending, calls>>
      BY <1>4 DEF RunEffect
    <2>2. PoolOK'
      BY <1>1, <2>1 DEF PoolOK, SlotsAccounted, InStage
    <2>3. EffectIsOfTheLine' /\ LineDrawsItsPair'
      BY <1>1, <1>2, <1>3, <2>1 DEF EffectIsOfTheLine, LineDrawsItsPair
    <2>4. UsersTypeOK'
      BY <1>1, <1>2, <1>3, <2>1 DEF UsersTypeOK
    <2> QED
      BY <2>2, <2>3, <2>4, InvIsPoolAndUsers
  <1>5. CASE p \notin routeCache
    <2>1. /\ geometry' = [geometry EXCEPT ![l] = NoPair]
          /\ effect' = [effect EXCEPT ![l] = Len(calls) + 1] /\ StartCalls(<<p>>)
      BY <1>5 DEF RunEffect
    <2>2. <<p>> \in Seq(Pairs) /\ Len(<<p>>) = 1 /\ <<p>>[1] = p
      BY <1>2
    <2>3. /\ PoolOK' /\ CallsKept /\ Len(calls') = Len(calls) + 1
          /\ calls'[Len(calls) + 1].pair = p
      <3> DEFINE ps == <<p>>
      <3>1. ps \in Seq(Pairs) /\ StartCalls(ps) /\ Len(ps) = 1 /\ ps[1] = p /\ 1 \in 1..1
        BY <2>1, <2>2
      <3> HIDE DEF ps
      <3>2. /\ PoolOK' /\ CallsKept /\ Len(calls') = Len(calls) + Len(ps)
            /\ \A i \in 1..Len(ps) : calls'[Len(calls) + i].pair = ps[i]
        BY <1>1, <3>1, StartStep
      <3> QED
        BY <3>1, <3>2
    <2>4. /\ Len(calls) \in Nat /\ Len(calls) + 1 \in DOMAIN calls'
          /\ Len(calls) + 1 \in 0..MaxCalls
      BY <1>1, <1>2, <2>3 DEF PoolOK
    <2>5. EffectIsOfTheLine'
      <3> SUFFICES ASSUME NEW d \in Lines \ due', effect'[d] # 0
                   PROVE  effect'[d] \in DOMAIN calls' /\ calls'[effect'[d]].pair = wanted'[d]
        BY <1>1, <1>2 DEF EffectIsOfTheLine
      <3>1. CASE d = l
        BY <1>2, <1>3, <2>1, <2>3, <2>4, <3>1
      <3>2. CASE d # l
        <4>1. effect'[d] = effect[d] /\ wanted'[d] = wanted[d] /\ d \in Lines \ due
          BY <1>2, <1>3, <2>1, <3>2
        <4> QED
          BY <1>1, <2>3, <4>1 DEF EffectIsOfTheLine, CallsKept
      <3> QED
        BY <3>1, <3>2
    <2>6. LineDrawsItsPair'
      BY <1>1, <1>2, <1>3, <2>1 DEF LineDrawsItsPair
    <2>7. UsersTypeOK'
      BY <1>1, <1>2, <1>3, <2>1, <2>4 DEF UsersTypeOK
    <2> QED
      BY <2>3, <2>5, <2>6, <2>7, InvIsPoolAndUsers
  <1> QED
    BY <1>4, <1>5

LEMMA LoadStep ==
    ASSUME RoadInv, NEW es \in MapLoads, LoadMap(es)
    PROVE  RoadInv'
  <1>1. PoolOK /\ UsersTypeOK /\ EffectIsOfTheLine /\ LineDrawsItsPair
    BY InvIsPoolAndUsers
  <1>2. es \in Seq(Pairs)
    BY RoadAssumption DEF RoadAssumption
  <1> DEFINE S == {i \in DOMAIN es : es[i] \notin routeCache}
  <1>3. PICK f \in Listed(S) :
            /\ StartCalls([k \in DOMAIN f |-> es[f[k]]])
            /\ batches' = batches \union {(Len(calls) + 1)..(Len(calls) + Len(f))}
    BY DEF LoadMap
  <1>4. IsFiniteSet(S) /\ S \subseteq DOMAIN es
    <2>1. IsFiniteSet(DOMAIN es)
      BY <1>2, FS_Interval
    <2> QED
      BY <2>1, FS_Subset
  <1>5. Cardinality(S) \in Nat
    BY <1>4, FS_CardinalityType
  <1> HIDE DEF S
  <1>6. f \in [1..Cardinality(S) -> DOMAIN es] /\ Len(f) = Cardinality(S)
    BY <1>4, <1>5 DEF Listed
  <1> DEFINE ps == [k \in DOMAIN f |-> es[f[k]]]
  <1>7. ps \in Seq(Pairs) /\ Len(ps) = Len(f)
    <2>1. \A k \in 1..Cardinality(S) : es[f[k]] \in Pairs
      BY <1>2, <1>6
    <2>2. ps \in [1..Cardinality(S) -> Pairs]
      BY <1>6, <2>1
    <2> QED
      BY <1>5, <1>6, <2>2
  <1>8. StartCalls(ps)
    BY <1>3
  <1> HIDE DEF ps
  <1>9. PoolOK' /\ CallsKept /\ Len(calls') = Len(calls) + Len(f)
    BY <1>1, <1>7, <1>8, StartStep
  <1>10. UNCHANGED <<routeCache, wanted, due, effect, geometry>> /\ routed' = {}
         /\ entities' = {es[i] : i \in DOMAIN es}
    BY DEF LoadMap, lineVars
  <1>11. EffectIsOfTheLine' /\ LineDrawsItsPair'
    BY <1>1, <1>9, <1>10, EffectKept DEF LineDrawsItsPair
  <1>12. entities' \subseteq Pairs
    BY <1>2, <1>10
  <1>13. batches' \subseteq SUBSET (1..MaxCalls)
    <2>1. Len(calls) \in Nat /\ Len(calls) + Len(f) <= MaxCalls /\ MaxCalls \in Nat
      BY <1>1, <1>9, RoadAssumption DEF PoolOK, RoadAssumption
    <2>2. Len(f) \in Nat
      BY <1>5, <1>6
    <2>3. (Len(calls) + 1)..(Len(calls) + Len(f)) \subseteq 1..MaxCalls
      BY <2>1, <2>2
    <2> QED
      BY <1>1, <1>3, <2>3 DEF UsersTypeOK
  <1>14. UsersTypeOK'
    BY <1>1, <1>10, <1>12, <1>13 DEF UsersTypeOK
  <1> QED
    BY <1>9, <1>11, <1>14, InvIsPoolAndUsers

LEMMA RoadInvStep == RoadInv /\ [RoadNext]_roadVars => RoadInv'
  <1> SUFFICES ASSUME RoadInv, [RoadNext]_roadVars PROVE RoadInv'
    OBVIOUS
  <1>1. PoolOK /\ UsersTypeOK /\ EffectIsOfTheLine /\ LineDrawsItsPair
    BY InvIsPoolAndUsers
  <1>2. ASSUME NEW c \in DOMAIN calls, RouteFound(c) \/ RouteFailed(c) PROVE RoadInv'
    BY <1>2, AnswerStep
  <1>3. ASSUME NEW c \in DOMAIN calls, RetryRoute(c) PROVE RoadInv'
    <2>1. PoolOK' /\ CallsKept
      BY <1>1, <1>3, RetryStep
    <2>2. UNCHANGED <<routeCache, wanted, due, effect, geometry, entities, routed, batches>>
      BY <1>3 DEF RetryRoute, lineVars, mapVars
    <2>3. EffectIsOfTheLine' /\ LineDrawsItsPair' /\ UsersTypeOK'
      BY <1>1, <2>1, <2>2, EffectKept DEF LineDrawsItsPair, UsersTypeOK
    <2> QED
      BY <2>1, <2>3, InvIsPoolAndUsers
  <1>4. ASSUME NEW l \in Lines, HideLine(l) PROVE RoadInv'
    <2>1. /\ wanted' = [wanted EXCEPT ![l] = NoPair] /\ effect' = [effect EXCEPT ![l] = 0]
          /\ geometry' = [geometry EXCEPT ![l] = NoPair]
          /\ UNCHANGED <<inFlight, pending, routeCache, calls, due, entities, routed, batches>>
          /\ l \notin due
      BY <1>4 DEF HideLine, poolVars, mapVars
    <2>2. PoolOK'
      BY <1>1, <2>1 DEF PoolOK, SlotsAccounted, InStage
    <2>3. EffectIsOfTheLine' /\ LineDrawsItsPair'
      BY <1>1, <2>1 DEF EffectIsOfTheLine, LineDrawsItsPair, UsersTypeOK
    <2>4. UsersTypeOK'
      BY <1>1, <2>1, RoadAssumption DEF UsersTypeOK, RoadAssumption
    <2> QED
      BY <2>2, <2>3, <2>4, InvIsPoolAndUsers
  <1>5. ASSUME NEW l \in Lines, NEW p \in Pairs, ShowLine(l, p) PROVE RoadInv'
    BY <1>5, ShowStep
  <1>9. ASSUME NEW l \in Lines, RunEffect(l) PROVE RoadInv'
    BY <1>9, RunEffectStep
  <1>6. ASSUME NEW es \in MapLoads, LoadMap(es) PROVE RoadInv'
    BY <1>6, LoadStep
  <1>7. ASSUME NEW b \in batches, AttachRoutes(b) PROVE RoadInv'
    <2>1. /\ batches' = batches \ {b} /\ routed' = routed \union (entities \intersect routeCache)
          /\ UNCHANGED <<inFlight, pending, routeCache, calls, wanted, due,
                        effect, geometry, entities>>
      BY <1>7 DEF AttachRoutes, poolVars, lineVars
    <2>2. PoolOK'
      BY <1>1, <2>1 DEF PoolOK, SlotsAccounted, InStage
    <2>3. EffectIsOfTheLine' /\ LineDrawsItsPair' /\ UsersTypeOK'
      BY <1>1, <2>1 DEF EffectIsOfTheLine, LineDrawsItsPair, UsersTypeOK
    <2> QED
      BY <2>2, <2>3, InvIsPoolAndUsers
  <1>8. CASE UNCHANGED roadVars
    <2>1. PoolOK' /\ UsersTypeOK' /\ EffectIsOfTheLine' /\ LineDrawsItsPair'
      BY <1>1, <1>8 DEF roadVars, PoolOK, SlotsAccounted, InStage, UsersTypeOK,
                        EffectIsOfTheLine, LineDrawsItsPair
    <2> QED
      BY <2>1, InvIsPoolAndUsers
  <1> QED
    BY <1>2, <1>3, <1>4, <1>5, <1>6, <1>7, <1>8, <1>9 DEF RoadNext

LEMMA RoadInvariant == RoadSpec => []RoadInv
  BY RoadInvInit, RoadInvStep, PTL DEF RoadSpec

\* Type correctness, the bound of the pool among it, for any pool, any lines
\* and any number of calls.
THEOREM RoadTypeCorrect == RoadSpec => []RoadTypeOK
  BY RoadInvariant, PTL DEF RoadInv

\* The pool loses no slot and forgets no call.
THEOREM EverySlotAccounted == RoadSpec => []SlotsAccounted
  BY RoadInvariant, PTL DEF RoadInv

\* Once its effect has run, a line draws the route of the pair it is mounted with.
THEOREM LineDrawsRight == RoadSpec => []LineDrawsItsPair
  BY RoadInvariant, PTL DEF RoadInv

---------------------------------------------------------------------------
(* What EveryCallSettles rests on                                          *)

\* While a call has not settled, one of them can move: it is being fetched, or
\* its retry timer is running.
PoolMoves ==
    DOMAIN calls # InStage("settled") => InStage("fetching") \union InStage("pause") # {}

LEMMA InvMoves == RoadInv => PoolMoves
  <1> SUFFICES ASSUME RoadInv, DOMAIN calls # InStage("settled"),
                      InStage("fetching") = {}, InStage("pause") = {}
               PROVE  FALSE
    BY DEF PoolMoves
  <1>1. PoolOK
    BY InvIsPoolAndUsers
  <1>2. PICK c \in DOMAIN calls : calls[c].stage # "settled"
    BY DEF InStage
  <1>3. calls[c] \in Call
    BY <1>1 DEF PoolOK
  <1>4. calls[c].stage \in {"waiting", "fetching", "pause", "settled"}
    BY <1>3 DEF Call
  <1>5. c \in InStage("waiting")
    BY <1>2, <1>4 DEF InStage
  <1>6. pending # <<>>
    BY <1>1, <1>5 DEF PoolOK, SlotsAccounted
  <1>7. Cardinality(InStage("fetching")) = MaxConcurrent
    BY <1>1, <1>6 DEF PoolOK, SlotsAccounted
  <1>8. Cardinality(InStage("fetching")) = 0
    BY FS_EmptySet
  <1> QED
    BY <1>7, <1>8, RoadAssumption DEF RoadAssumption

\* The pool never comes to rest with calls that wait: beside a waiting call there
\* is one whose fetch or timer will end, and which then passes its slot on.
THEOREM PoolNeverStalls == RoadSpec => []PoolMoves
  BY RoadInvariant, InvMoves, PTL

\* How far a call is from its answer.
Distance(k) ==
    CASE k.stage = "waiting" -> 8 - 3 * k.attempt
      [] k.stage = "fetching" -> 7 - 3 * k.attempt
      [] k.stage = "pause" -> 3
      [] OTHER -> 0

\* A call that changes has come nearer to its answer, and none is forgotten.
CallsAdvance ==
    /\ DOMAIN calls \subseteq DOMAIN calls'
    /\ \A d \in DOMAIN calls : calls'[d] # calls[d] =>
            Distance(calls'[d]) \in Nat /\ Distance(calls'[d]) < Distance(calls[d])

\* New calls leave the earlier ones as they are.
LEMMA StartAdvances ==
    ASSUME PoolOK, NEW ps \in Seq(Pairs), StartCalls(ps)
    PROVE  CallsAdvance
  <1> DEFINE k == IF Len(ps) <= FreeSlots THEN Len(ps) ELSE FreeSlots
             new == [i \in 1..Len(ps) |->
                        [pair |-> ps[i], attempt |-> 1,
                         stage |-> IF i <= k THEN "fetching" ELSE "waiting"]]
  <1>1. calls' = calls \o new
    BY DEF StartCalls
  <1>2. new \in [1..Len(ps) -> Call]
    <2>1. \A i \in 1..Len(ps) : ps[i] \in Pairs
      OBVIOUS
    <2> QED
      BY <2>1 DEF Call
  <1> HIDE DEF new
  <1>3. new \in Seq(Call) /\ calls \in Seq(Call)
    <2>1. Len(ps) \in Nat
      OBVIOUS
    <2> QED
      BY <1>2, <2>1 DEF PoolOK
  <1>4. \A i \in 1..Len(calls) : (calls \o new)[i] = calls[i]
    BY <1>3, Joined
  <1>5. DOMAIN (calls \o new) = 1..(Len(calls) + Len(new)) /\ Len(new) \in Nat
    BY <1>3, Joined
  <1>6. DOMAIN calls = 1..Len(calls) /\ Len(calls) \in Nat
    BY <1>3
  <1>7. 1..Len(calls) \subseteq 1..(Len(calls) + Len(new))
    BY <1>5, <1>6
  <1> QED
    BY <1>1, <1>4, <1>5, <1>6, <1>7 DEF CallsAdvance

\* The end of a fetch moves that call, and the one that gets its slot, forward.
LEMMA ReleaseAdvances ==
    ASSUME PoolOK, NEW c \in DOMAIN calls, calls[c].stage = "fetching",
           NEW s \in {"settled", "pause"}, s = "pause" => calls[c].attempt = 1,
           calls' = Released(c, s)
    PROVE  CallsAdvance
  <1>1. \A d \in DOMAIN calls : calls[d] \in Call
    BY DEF PoolOK
  <1>2. DOMAIN calls' = DOMAIN calls
    BY DEF Released
  <1> SUFFICES ASSUME NEW d \in DOMAIN calls, calls'[d] # calls[d]
               PROVE  Distance(calls'[d]) \in Nat /\ Distance(calls'[d]) < Distance(calls[d])
    BY <1>2 DEF CallsAdvance
  <1>3. CASE d = c
    <2>1. /\ calls'[d].stage = s /\ calls'[d].attempt = calls[d].attempt
          /\ calls[d].stage = "fetching" /\ calls[d].attempt \in 1..2
      BY <1>1, <1>3 DEF Released, Call
    <2>2. CASE s = "pause"
      BY <1>3, <2>1, <2>2 DEF Distance
    <2>3. CASE s = "settled"
      BY <1>3, <2>1, <2>3 DEF Distance
    <2> QED
      BY <2>2, <2>3
  <1>4. CASE d # c
    <2>1. pending # <<>> /\ d = Head(pending)
      BY <1>4 DEF Released
    <2>2. calls[d].stage = "waiting"
      <3>1. 1 \in DOMAIN pending /\ Head(pending) = pending[1]
        BY <2>1, TailFacts DEF PoolOK
      <3> QED
        BY <2>1, <3>1 DEF PoolOK, SlotsAccounted, InStage
    <2>3. calls'[d] = [calls[d] EXCEPT !.stage = "fetching"]
      BY <1>4, <2>1 DEF Released
    <2>4. /\ calls'[d].stage = "fetching" /\ calls'[d].attempt = calls[d].attempt
          /\ calls[d].attempt \in 1..2
      BY <1>1, <2>3 DEF Call
    <2> QED
      BY <2>2, <2>4 DEF Distance
  <1> QED
    BY <1>3, <1>4

LEMMA RetryAdvances ==
    ASSUME PoolOK, NEW c \in DOMAIN calls, RetryRoute(c)
    PROVE  CallsAdvance
  <1>1. PICK s \in {"fetching", "waiting"} : calls' = [calls EXCEPT ![c] = SecondAttempt(c, s)]
    BY DEF RetryRoute
  <1>2. /\ DOMAIN calls' = DOMAIN calls /\ calls'[c] = SecondAttempt(c, s)
        /\ \A d \in DOMAIN calls : d # c => calls'[d] = calls[d]
    BY <1>1
  <1>3. /\ calls'[c].stage = s /\ calls'[c].attempt = 2 /\ s \in {"fetching", "waiting"}
        /\ calls[c].stage = "pause"
    BY <1>2 DEF SecondAttempt, RetryRoute
  <1>4. Distance(calls'[c]) \in Nat /\ Distance(calls'[c]) < Distance(calls[c])
    BY <1>3 DEF Distance
  <1> QED
    BY <1>2, <1>4 DEF CallsAdvance

LEMMA AdvanceStep ==
    ASSUME RoadInv, [RoadNext]_roadVars
    PROVE  [CallsAdvance]_roadVars
  <1>1. PoolOK
    BY InvIsPoolAndUsers
  <1>2. ASSUME UNCHANGED calls PROVE CallsAdvance
    BY <1>2 DEF CallsAdvance
  <1>3. ASSUME NEW c \in DOMAIN calls, RouteFound(c) \/ RouteFailed(c) PROVE CallsAdvance
    <2>1. calls[c].stage = "fetching" /\ calls[c] \in Call
      BY <1>1, <1>3 DEF RouteFound, RouteFailed, PoolOK
    <2>2. \/ calls' = Released(c, "settled")
          \/ calls' = Released(c, "pause") /\ calls[c].attempt = 1
      BY <1>3 DEF RouteFound, RouteFailed
    <2> QED
      BY <1>1, <2>1, <2>2, ReleaseAdvances
  <1>4. ASSUME NEW c \in DOMAIN calls, RetryRoute(c) PROVE CallsAdvance
    BY <1>1, <1>4, RetryAdvances
  <1>9. ASSUME NEW l \in Lines, NEW p \in Pairs, ShowLine(l, p) PROVE UNCHANGED calls
    BY <1>9 DEF ShowLine, poolVars
  <1>5. ASSUME NEW l \in Lines, RunEffect(l) PROVE CallsAdvance
    <2>1. CASE UNCHANGED calls
      BY <1>2, <2>1
    <2>2. CASE StartCalls(<<wanted[l]>>)
      <3>1. <<wanted[l]>> \in Seq(Pairs)
        <4>1. wanted[l] \in Pairs
          BY <1>5, InvIsPoolAndUsers DEF RunEffect, EffectIsOfTheLine
        <4> QED
          BY <4>1
      <3> QED
        BY <1>1, <2>2, <3>1, StartAdvances
    <2> QED
      BY <1>5, <2>1, <2>2 DEF RunEffect
  <1>6. ASSUME NEW es \in MapLoads, LoadMap(es) PROVE CallsAdvance
    <2> DEFINE S == {i \in DOMAIN es : es[i] \notin routeCache}
    <2>1. es \in Seq(Pairs)
      BY RoadAssumption DEF RoadAssumption
    <2>2. PICK f \in Listed(S) : StartCalls([j \in DOMAIN f |-> es[f[j]]])
      BY <1>6 DEF LoadMap
    <2>3. Cardinality(S) \in Nat
      <3>1. IsFiniteSet(DOMAIN es)
        BY <2>1, FS_Interval
      <3> QED
        BY <3>1, FS_Subset, FS_CardinalityType
    <2>4. f \in [1..Cardinality(S) -> DOMAIN es]
      BY DEF Listed
    <2> HIDE DEF S
    <2>5. [j \in DOMAIN f |-> es[f[j]]] \in Seq(Pairs)
      <3>1. \A j \in 1..Cardinality(S) : es[f[j]] \in Pairs
        BY <2>1, <2>4
      <3>2. [j \in DOMAIN f |-> es[f[j]]] \in [1..Cardinality(S) -> Pairs]
        BY <2>4, <3>1
      <3> QED
        BY <2>3, <3>2
    <2> QED
      BY <1>1, <2>2, <2>5, StartAdvances
  <1>7. ASSUME NEW l \in Lines, HideLine(l) PROVE UNCHANGED calls
    BY <1>7 DEF HideLine, poolVars
  <1>8. ASSUME NEW b \in batches, AttachRoutes(b) PROVE UNCHANGED calls
    BY <1>8 DEF AttachRoutes, poolVars
  <1> QED
    BY <1>2, <1>3, <1>4, <1>5, <1>6, <1>7, <1>8, <1>9 DEF RoadNext

\* No call goes back: neither a retry nor the hand-over of a slot gives one more
\* to do than it had, so that each settles after five steps at most.
THEOREM CallsRunDown == RoadSpec => [][CallsAdvance]_roadVars
  BY RoadInvariant, AdvanceStep, PTL DEF RoadSpec

\* A preload waits for calls that were made, so that it ends when they do.
BatchesOfCalls == \A b \in batches : b \subseteq DOMAIN calls

LEMMA BatchesStep ==
    ASSUME RoadInv, BatchesOfCalls, [RoadNext]_roadVars
    PROVE  BatchesOfCalls'
  <1>1. PoolOK
    BY InvIsPoolAndUsers
  <1>2. DOMAIN calls \subseteq DOMAIN calls'
    <2>1. CASE UNCHANGED roadVars
      BY <2>1 DEF roadVars
    <2> QED
      BY <2>1, AdvanceStep DEF CallsAdvance
  <1>3. ASSUME batches' \subseteq batches PROVE BatchesOfCalls'
    BY <1>2, <1>3 DEF BatchesOfCalls
  <1>4. ASSUME NEW es \in MapLoads, LoadMap(es) PROVE BatchesOfCalls'
    <2> DEFINE S == {i \in DOMAIN es : es[i] \notin routeCache}
    <2>1. es \in Seq(Pairs)
      BY RoadAssumption DEF RoadAssumption
    <2>2. PICK f \in Listed(S) :
              /\ StartCalls([j \in DOMAIN f |-> es[f[j]]])
              /\ batches' = batches \union {(Len(calls) + 1)..(Len(calls) + Len(f))}
      BY <1>4 DEF LoadMap
    <2>3. Cardinality(S) \in Nat
      <3>1. IsFiniteSet(DOMAIN es)
        BY <2>1, FS_Interval
      <3> QED
        BY <3>1, FS_Subset, FS_CardinalityType
    <2>4. f \in [1..Cardinality(S) -> DOMAIN es] /\ Len(f) = Cardinality(S)
      BY <2>3 DEF Listed
    <2> HIDE DEF S
    <2> DEFINE ps == [j \in DOMAIN f |-> es[f[j]]]
    <2>5. ps \in Seq(Pairs) /\ Len(ps) = Len(f)
      <3>1. \A j \in 1..Cardinality(S) : es[f[j]] \in Pairs
        BY <2>1, <2>4
      <3>2. ps \in [1..Cardinality(S) -> Pairs]
        BY <2>4, <3>1
      <3> QED
        BY <2>3, <2>4, <3>2
    <2>6. StartCalls(ps)
      BY <2>2
    <2> HIDE DEF ps
    <2>7. Len(calls') = Len(calls) + Len(f) /\ DOMAIN calls' = 1..Len(calls')
          /\ Len(calls) \in Nat /\ Len(f) \in Nat
      BY <1>1, <2>5, <2>6, StartStep DEF PoolOK
    <2>8. (Len(calls) + 1)..(Len(calls) + Len(f)) \subseteq DOMAIN calls'
      BY <2>7
    <2> QED
      BY <1>2, <2>2, <2>8 DEF BatchesOfCalls
  <1>5. ASSUME NEW c \in DOMAIN calls, RouteFound(c) \/ RouteFailed(c) \/ RetryRoute(c)
        PROVE  batches' \subseteq batches
    BY <1>5 DEF RouteFound, RouteFailed, RetryRoute, mapVars
  <1>6. ASSUME NEW l \in Lines, NEW p \in Pairs, ShowLine(l, p)
        PROVE  batches' \subseteq batches
    BY <1>6 DEF ShowLine, mapVars
  <1>10. ASSUME NEW l \in Lines, RunEffect(l) PROVE batches' \subseteq batches
    BY <1>10 DEF RunEffect, mapVars
  <1>7. ASSUME NEW l \in Lines, HideLine(l) PROVE batches' \subseteq batches
    BY <1>7 DEF HideLine, mapVars
  <1>8. ASSUME NEW b \in batches, AttachRoutes(b) PROVE batches' \subseteq batches
    BY <1>8 DEF AttachRoutes
  <1>9. CASE UNCHANGED roadVars
    BY <1>3, <1>9 DEF roadVars
  <1> QED
    BY <1>3, <1>4, <1>5, <1>6, <1>7, <1>8, <1>9, <1>10 DEF RoadNext

\* However loads overlap, a preload never waits for a call that nobody makes.
THEOREM PreloadsAwaitCalls == RoadSpec => []BatchesOfCalls
  <1>1. RoadInit => BatchesOfCalls
    BY DEF RoadInit, BatchesOfCalls
  <1> QED
    BY <1>1, RoadInvariant, BatchesStep, PTL DEF RoadSpec
============================================================================
