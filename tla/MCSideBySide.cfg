\* Roads: one line and one load of the live map, two pairs, two slots.  Queue:
\* three mutations, two of them fit.  Session: one administrator.  Ingest: two
\* events, one crash.  Fences: one vehicle, two fences.
CONSTANTS
    p1 = p1
    p2 = p2
    Pairs <- MCPairs
    Lines = {line}
    MapLoads <- MCMapLoads
    MaxConcurrent = 2
    MaxCalls = 3
    NoPair = NoPair
    MaxMutations = 3
    MaxQueue = 2
    MaxApplied = 2
    Nothing = Nothing
    Users = {ann}
    Admins = {ann}
    Requests = {r}
    MaxInFlight = 2
    None = None
    Events = {e1, e2}
    BatchSize = 2
    MaxCrashes = 1
    Vehicles = {v}
    Fences = {f1, f2}

SPECIFICATION Spec

INVARIANTS
    RoadTypeOK
    SlotsAccounted
    LineDrawsItsPair
    QueueTypeOK
    StoredInOrder
    
    RepeatsExplained
    IngestTypeOK
    FenceTypeOK
    ConsumersAgree

PROPERTIES
    EveryCallSettles
    CachedRouteReachesTheMap
    SyncEnds
    EveryRequestSettles
    LandingOpens
    AckedIsSettled
    IngestIsStore

CHECK_DEADLOCK FALSE
