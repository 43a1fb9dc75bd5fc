------------------------------ MODULE RoadMap ------------------------------
(***************************************************************************)
(* The road routes of the web map (frontends/web/src/lib/routing.ts): one  *)
(* call of fetchRoadRoute per route line or preloaded pair, a pool of      *)
(* MaxConcurrent slots shared by all of them, one retry per call, and the  *)
(* cache they fill.  Its users here are the route lines (RoadRoute: an     *)
(* effect per change of the pair, late answers of an older effect ignored) *)
(* and the live map, which preloads a batch of pairs and attaches the      *)
(* cached routes when the batch has settled.                               *)
(***************************************************************************)
EXTENDS Integers, Sequences, FiniteSets, SequencesExt

CONSTANTS Pairs,          \* origin and destination pairs, by cacheKey
          Lines,          \* mounted places for a route line
          MapLoads,       \* what a load of the live map may list: sequences of pairs
          MaxConcurrent,  \* MAX_CONCURRENT of routing.ts
          MaxCalls,       \* bound on the calls of fetchRoadRoute in a behaviour
          NoPair

ASSUME RoadAssumption ==
    /\ MaxConcurrent \in Nat \ {0}
    /\ MaxCalls \in Nat
    /\ MapLoads \subseteq Seq(Pairs)
    /\ NoPair \notin Pairs

VARIABLES inFlight,    \* inFlight of routing.ts
          pending,     \* pending of routing.ts: the calls waiting for a slot
          routeCache,  \* the pairs with a cached geometry
          calls,       \* every call so far: its pair, its attempt, where it stands
          wanted,      \* per line: the pair in its props, NoPair when unmounted
          due,         \* the lines drawn with a new pair whose effect has not run yet
          effect,      \* per line: the call whose answer it takes, 0 when cancelled
          geometry,    \* per line: the pair whose geometry it draws
          entities,    \* the pairs on the live map
          routed,      \* those drawn with a road geometry
          batches      \* per preload under way: the calls it waits for

poolVars == <<inFlight, pending, routeCache, calls>>
lineVars == <<wanted, due, effect, geometry>>
mapVars  == <<entities, routed, batches>>
roadVars == <<inFlight, pending, routeCache, calls, wanted, due, effect, geometry,
              entities, routed, batches>>

Call == [pair : Pairs, attempt : 1..2,
         stage : {"waiting", "fetching", "pause", "settled"}]

RoadTypeOK ==
    /\ inFlight \in 0..MaxConcurrent
    /\ pending \in Seq(1..MaxCalls)
    /\ routeCache \subseteq Pairs
    /\ calls \in Seq(Call)
    /\ Len(calls) <= MaxCalls
    /\ wanted \in [Lines -> Pairs \union {NoPair}]
    /\ due \subseteq Lines
    /\ effect \in [Lines -> 0..MaxCalls]
    /\ geometry \in [Lines -> Pairs \union {NoPair}]
    /\ entities \subseteq Pairs
    /\ routed \subseteq Pairs
    /\ batches \subseteq SUBSET (1..MaxCalls)

RoadInit ==
    /\ inFlight = 0
    /\ pending = <<>>
    /\ routeCache = {}
    /\ calls = <<>>
    /\ wanted = [l \in Lines |-> NoPair]
    /\ due = {}
    /\ effect = [l \in Lines |-> 0]
    /\ geometry = [l \in Lines |-> NoPair]
    /\ entities = {}
    /\ routed = {}
    /\ batches = {}

\* The numbers in S in their order: there is one such sequence.
Listed(S) ==
    {h \in [1..Cardinality(S) -> S] : \A k, l \in DOMAIN h : k < l => h[k] < h[l]}

InStage(s) == {c \in DOMAIN calls : calls[c].stage = s}

\* Mutant: `<=` for `<` in acquireSlot.
FreeSlotsOffByOne == MaxConcurrent + 1 - inFlight

FreeSlots == MaxConcurrent - inFlight

---------------------------------------------------------------------------
(* The slots                                                               *)

\* fetchRoadRoute for each uncached pair of ps, in one go: acquireSlot takes
\* a free slot at once, and puts the caller at the end of pending otherwise.
StartCalls(ps) ==
    LET n == Len(calls)
        k == IF Len(ps) <= FreeSlots THEN Len(ps) ELSE FreeSlots
    IN  /\ n + Len(ps) <= MaxCalls
        /\ inFlight' = inFlight + k
        /\ pending' = pending \o [i \in 1..(Len(ps) - k) |-> n + k + i]
        /\ calls' = calls \o [i \in 1..Len(ps) |->
                        [pair |-> ps[i], attempt |-> 1,
                         stage |-> IF i <= k THEN "fetching" ELSE "waiting"]]

\* Mutant: the slot handed over is not counted.
ReleaseSlotUncounted ==
    /\ inFlight' = inFlight - 1
    /\ pending' = IF pending = <<>> THEN pending ELSE Tail(pending)

\* releaseSlot: the slot goes to the first waiting call, if there is one.
ReleaseSlot ==
    IF pending = <<>>
    THEN inFlight' = inFlight - 1 /\ UNCHANGED pending
    ELSE UNCHANGED inFlight /\ pending' = Tail(pending)

\* Mutant: the waiting call is taken off the queue and not resumed.
ReleasedUnheard(c, s) == [calls EXCEPT ![c] = [@ EXCEPT !.stage = s]]

\* Call c moves to stage s and gives its slot back.
Released(c, s) ==
    [d \in DOMAIN calls |->
        IF d = c THEN [calls[d] EXCEPT !.stage = s]
        ELSE IF pending # <<>> /\ d = Head(pending)
             THEN [calls[d] EXCEPT !.stage = "fetching"]
             ELSE calls[d]]

\* Mutant: without the effect's cancelled flag.
DrawLate(c, result) ==
    geometry' = [l \in Lines |-> IF wanted[l] # NoPair THEN result ELSE geometry[l]]

\* A line takes the answer of the call of its current effect only.
Draw(c, result) ==
    geometry' = [l \in Lines |-> IF effect[l] = c THEN result ELSE geometry[l]]

\* OSRM answers with a route.
RouteFound(c) ==
    /\ calls[c].stage = "fetching"
    /\ routeCache' = routeCache \union {calls[c].pair}
    /\ calls' = Released(c, "settled")
    /\ ReleaseSlot
    /\ Draw(c, calls[c].pair)
    /\ UNCHANGED <<wanted, due, effect, mapVars>>

\* An error, no route, or the 10 s timeout: the first attempt is followed by
\* a pause, the second by the answer null.
RouteFailed(c) ==
    /\ calls[c].stage = "fetching"
    /\ ReleaseSlot
    /\ IF calls[c].attempt = 1
       THEN /\ calls' = Released(c, "pause")
            /\ UNCHANGED geometry
       ELSE /\ calls' = Released(c, "settled")
            /\ Draw(c, NoPair)
    /\ UNCHANGED <<routeCache, wanted, due, effect, mapVars>>

SecondAttempt(c, s) == [pair |-> calls[c].pair, attempt |-> 2, stage |-> s]

\* The 2 s timer of the retry: the second attempt asks for a slot again.
RetryRoute(c) ==
    /\ calls[c].stage = "pause"
    /\ IF FreeSlots > 0
       THEN /\ inFlight' = inFlight + 1
            /\ calls' = [calls EXCEPT ![c] = SecondAttempt(c, "fetching")]
            /\ UNCHANGED pending
       ELSE /\ pending' = Append(pending, c)
            /\ calls' = [calls EXCEPT ![c] = SecondAttempt(c, "waiting")]
            /\ UNCHANGED inFlight
    /\ UNCHANGED <<routeCache, lineVars, mapVars>>

---------------------------------------------------------------------------
(* The lines and the live map                                              *)

\* A line is mounted with pair p, or its props change to p: it is drawn anew
\* with the geometry it has.  React runs its effect before it draws it again.
ShowLine(l, p) ==
    /\ wanted[l] # p /\ l \notin due
    /\ wanted' = [wanted EXCEPT ![l] = p]
    /\ due' = due \union {l}
    /\ UNCHANGED <<effect, geometry, poolVars, mapVars>>

\* The effect of the pair: the one before is cancelled, its geometry goes, and
\* the route is fetched, or taken from the cache.
RunEffect(l) ==
    /\ l \in due
    /\ due' = due \ {l}
    /\ IF wanted[l] \in routeCache
       THEN /\ geometry' = [geometry EXCEPT ![l] = wanted[l]]
            /\ effect' = [effect EXCEPT ![l] = 0]
            /\ UNCHANGED <<inFlight, pending, calls>>
       ELSE /\ geometry' = [geometry EXCEPT ![l] = NoPair]
            /\ StartCalls(<<wanted[l]>>)
            /\ effect' = [effect EXCEPT ![l] = Len(calls) + 1]
    /\ UNCHANGED <<routeCache, wanted, mapVars>>

HideLine(l) ==
    /\ wanted[l] # NoPair /\ l \notin due
    /\ wanted' = [wanted EXCEPT ![l] = NoPair]
    /\ effect' = [effect EXCEPT ![l] = 0]
    /\ geometry' = [geometry EXCEPT ![l] = NoPair]
    /\ UNCHANGED <<due, poolVars, mapVars>>

\* The live map's load is answered: the entities are replaced, without
\* their routes, and the pairs that are not cached are preloaded.
LoadMap(es) ==
    /\ entities' = {es[i] : i \in DOMAIN es}
    /\ routed' = {}
    /\ \E f \in Listed({i \in DOMAIN es : es[i] \notin routeCache}) :
          /\ StartCalls([k \in DOMAIN f |-> es[f[k]]])
          /\ batches' = batches \union {(Len(calls) + 1)..(Len(calls) + Len(f))}
    /\ UNCHANGED <<routeCache, lineVars>>

\* Mutant: only the routes the preload has fetched itself are attached.
AttachOwnRoutes(b) ==
    /\ b \in batches
    /\ \A c \in b : calls[c].stage = "settled"
    /\ batches' = batches \ {b}
    /\ routed' = routed \union (entities \intersect routeCache
                                \intersect {calls[c].pair : c \in b})
    /\ UNCHANGED <<poolVars, lineVars, entities>>

\* Every call of a preload has settled: the cached routes are attached to
\* whatever the map shows now.
AttachRoutes(b) ==
    /\ b \in batches
    /\ \A c \in b : calls[c].stage = "settled"
    /\ batches' = batches \ {b}
    /\ routed' = routed \union (entities \intersect routeCache)
    /\ UNCHANGED <<poolVars, lineVars, entities>>

RoadNext ==
    \/ \E c \in DOMAIN calls : RouteFound(c) \/ RouteFailed(c) \/ RetryRoute(c)
    \/ \E l \in Lines : HideLine(l) \/ RunEffect(l) \/ \E p \in Pairs : ShowLine(l, p)
    \/ \E es \in MapLoads : LoadMap(es)
    \/ \E b \in batches : AttachRoutes(b)

\* Fetches end by their own 10 s timeout, retry timers fire and a settled
\* batch runs its continuation; nobody has to open or load a map.
RoadFairness ==
    /\ WF_roadVars(\E c \in DOMAIN calls : RouteFound(c) \/ RouteFailed(c))
    /\ WF_roadVars(\E c \in DOMAIN calls : RetryRoute(c))
    /\ WF_roadVars(\E b \in batches : AttachRoutes(b))

RoadSpec == RoadInit /\ [][RoadNext]_roadVars /\ RoadFairness

---------------------------------------------------------------------------
(* Properties                                                              *)

\* The pool loses no slot and forgets no call, whatever mix of retries,
\* failures and hand-overs: every slot taken is that of a fetch at OSRM, the
\* calls that wait are exactly the entries of pending, each once, and nobody
\* waits beside a free slot.
SlotsAccounted ==
    /\ inFlight = Cardinality(InStage("fetching"))
    /\ {pending[i] : i \in DOMAIN pending} = InStage("waiting")
    /\ \A i, j \in DOMAIN pending : i # j => pending[i] # pending[j]
    /\ pending # <<>> => inFlight = MaxConcurrent

\* Whatever the order in which OSRM answers, a line draws the route of the
\* pair it is mounted with, never that of an earlier pair: from the moment its
\* effect has run; the frame before may still show the earlier one.
LineDrawsItsPair ==
    \A l \in Lines \ due : geometry[l] # NoPair => geometry[l] = wanted[l]

\* Every call of fetchRoadRoute comes back, so that no line and no preload
\* waits for ever behind others' slow requests.  (As the calls of a behaviour
\* are bounded, this is: again and again, all of them have.)
EveryCallSettles == []<>(InStage("settled") = DOMAIN calls)

\* A cached route reaches the map: while a preload is under way, also one
\* overtaken by a newer load, a pair of the map that is cached gets drawn
\* with its geometry or leaves the map.
CachedRouteReachesTheMap ==
    \A p \in Pairs :
        (p \in entities \intersect routeCache /\ batches # {})
            ~> (p \in routed \/ p \notin entities)
============================================================================
