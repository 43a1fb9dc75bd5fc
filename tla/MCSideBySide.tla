--------------------------- MODULE MCSideBySide ---------------------------
(***************************************************************************)
(* Small components that share no state, checked side by side: each        *)
(* behaviour is of the one that focus names, the others stay where they    *)
(* begin, with nothing to do that would have to happen.                    *)
(***************************************************************************)
EXTENDS RoadMap, OfflineQueue, WebSession, TrackingIngest, GeofenceDetector

CONSTANTS p1, p2

MCPairs == {p1, p2}
MCMapLoads == {<<p1, p2>>}

VARIABLE focus

vars == <<focus, roadVars, queueVars, webVars, ingestVars, fenceVars>>

Init ==
    /\ focus \in {"roads", "queue", "session", "ingest", "fences"}
    /\ RoadInit
    /\ QueueInit /\ (focus # "queue" => online)
    /\ WebInit
    /\ IngestInit
    /\ FenceInit

Next ==
    /\ UNCHANGED focus
    /\ \/ focus = "roads" /\ RoadNext /\ UNCHANGED <<queueVars, webVars, ingestVars, fenceVars>>
       \/ focus = "queue" /\ QueueNext /\ UNCHANGED <<roadVars, webVars, ingestVars, fenceVars>>
       \/ focus = "session" /\ WebNext /\ UNCHANGED <<roadVars, queueVars, ingestVars, fenceVars>>
       \/ focus = "ingest" /\ IngestNext /\ UNCHANGED <<roadVars, queueVars, webVars, fenceVars>>
       \/ focus = "fences" /\ FenceNext /\ UNCHANGED <<roadVars, queueVars, webVars, ingestVars>>

Spec ==
    /\ Init /\ [][Next]_vars
    /\ RoadFairness /\ QueueFairness /\ WebFairness /\ IngestFairness
============================================================================
