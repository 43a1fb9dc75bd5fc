------------------------- MODULE GeofenceDetector -------------------------
(***************************************************************************)
(* The GPS ingestion loop (gps-ingest/src/main.rs) with its geofence       *)
(* detector (geofence/detector.rs).  The loop awaits everything it does,   *)
(* so that a position is checked only after the events of the one before   *)
(* were published or given up; these are of one vehicle and of different   *)
(* fences, and their order is left open.  The detector's two maps are in   *)
(* memory.  `view` is what a consumer of the geofence topic believes.      *)
(***************************************************************************)
CONSTANTS Vehicles,
          Fences        \* the polygons of the definitions file, by their ids

VARIABLES vehicleGeofences,  \* vehicle_geofences: the fences each vehicle is in
          vehiclesInside,    \* vehicles_inside: the vehicles in each fence
          lastPosition,      \* per vehicle: the fences around the position checked last
          outbox,            \* the events of a position that are still to be published
          view,              \* per vehicle and fence: the last event published
          doubtful,          \* vehicle and fence: an event was lost since the last one
          forgotten          \* ... or the process restarted with the vehicle inside

fenceVars == <<vehicleGeofences, vehiclesInside, lastPosition, outbox, view, doubtful, forgotten>>
detectorVars   == <<vehicleGeofences, vehiclesInside>>

Places == Vehicles \X Fences
Crossing == {"Enter", "Exit"}
GeofenceEvent == [place : Places, type : Crossing]

FenceTypeOK ==
    /\ vehicleGeofences \in [Vehicles -> SUBSET Fences]
    /\ vehiclesInside \in [Fences -> SUBSET Vehicles]
    /\ lastPosition \in [Vehicles -> SUBSET Fences]
    /\ outbox \subseteq GeofenceEvent
    /\ view \in [Places -> Crossing]
    /\ doubtful \subseteq Places /\ forgotten \subseteq Places

\* A vehicle nothing was heard of is taken to be outside.
FenceInit ==
    /\ vehicleGeofences = [v \in Vehicles |-> {}]
    /\ vehiclesInside = [f \in Fences |-> {}]
    /\ lastPosition = [v \in Vehicles |-> {}]
    /\ outbox = {}
    /\ view = [p \in Places |-> "Exit"]
    /\ doubtful = {} /\ forgotten = {}

\* The places that events in the outbox are about.
Pending == {e.place : e \in outbox}

\* Mutant: the exit is not removed from the vehicle's own list.
CheckPositionKeepsExited(v, S) ==
    LET entered == S \ vehicleGeofences[v]
        left == vehicleGeofences[v] \ S
    IN  /\ outbox = {}
        /\ vehicleGeofences' = [vehicleGeofences EXCEPT ![v] = @ \union entered]
        /\ vehiclesInside' = [f \in Fences |->
                                CASE f \in entered -> vehiclesInside[f] \union {v}
                                  [] f \in left -> vehiclesInside[f] \ {v}
                                  [] OTHER -> vehiclesInside[f]]
        /\ outbox' = [place : {v} \X entered, type : {"Enter"}]
                        \union [place : {v} \X left, type : {"Exit"}]
        /\ lastPosition' = [lastPosition EXCEPT ![v] = S]
        /\ UNCHANGED <<view, doubtful, forgotten>>

\* Mutant: the fence's list is made of the vehicle's own.
CheckPositionMixedUp(v, S) ==
    LET entered == S \ vehicleGeofences[v]
        left == vehicleGeofences[v] \ S
    IN  /\ outbox = {}
        /\ vehicleGeofences' = [vehicleGeofences EXCEPT ![v] = (@ \union entered) \ left]
        /\ vehiclesInside' = [f \in Fences |-> IF f \in entered THEN entered
                                               ELSE vehiclesInside[f] \ {v}]
        /\ outbox' = [place : {v} \X entered, type : {"Enter"}]
                        \union [place : {v} \X left, type : {"Exit"}]
        /\ lastPosition' = [lastPosition EXCEPT ![v] = S]
        /\ UNCHANGED <<view, doubtful, forgotten>>

\* A position of v inside the fences of S: it enters those that are new and
\* leaves the others.
CheckPosition(v, S) ==
    LET entered == S \ vehicleGeofences[v]
        left == vehicleGeofences[v] \ S
    IN  /\ outbox = {}
        /\ vehicleGeofences' = [vehicleGeofences EXCEPT ![v] = (@ \union entered) \ left]
        /\ vehiclesInside' = [f \in Fences |->
                                CASE f \in entered -> vehiclesInside[f] \union {v}
                                  [] f \in left -> vehiclesInside[f] \ {v}
                                  [] OTHER -> vehiclesInside[f]]
        /\ outbox' = [place : {v} \X entered, type : {"Enter"}]
                        \union [place : {v} \X left, type : {"Exit"}]
        /\ lastPosition' = [lastPosition EXCEPT ![v] = S]
        /\ UNCHANGED <<view, doubtful, forgotten>>

PublishEvent(e) ==
    /\ outbox' = outbox \ {e}
    /\ view' = [view EXCEPT ![e.place] = e.type]
    /\ doubtful' = doubtful \ {e.place} /\ forgotten' = forgotten \ {e.place}
    /\ UNCHANGED <<detectorVars, lastPosition>>

\* Kafka refuses it, or its 5 s pass, whether or not it has arrived: this is
\* logged, and the event forgotten.
PublishFails(e) ==
    /\ outbox' = outbox \ {e}
    /\ view' \in {view, [view EXCEPT ![e.place] = e.type]}
    /\ doubtful' = doubtful \union {e.place}
    /\ UNCHANGED <<detectorVars, lastPosition, forgotten>>

\* The process ends and starts again, with empty maps: it will not report the
\* exits of the vehicles that were inside.
Restart ==
    /\ vehicleGeofences' = [v \in Vehicles |-> {}]
    /\ vehiclesInside' = [f \in Fences |-> {}]
    /\ outbox' = {}
    /\ doubtful' = doubtful \union Pending
    /\ forgotten' = forgotten \union {p \in Places : p[2] \in vehicleGeofences[p[1]]}
    /\ UNCHANGED <<lastPosition, view>>

FenceNext ==
    \/ \E v \in Vehicles, S \in SUBSET Fences : CheckPosition(v, S)
    \/ \E e \in outbox : PublishEvent(e) \/ PublishFails(e)
    \/ Restart

FenceSpec == FenceInit /\ [][FenceNext]_fenceVars

---------------------------------------------------------------------------
(* Properties                                                              *)

\* A consumer of the topic knows where each vehicle is: once the events of a
\* position are out, the last event published for a vehicle and a fence says
\* whether the vehicle's last position was inside.  A restart may make them
\* take a vehicle that has left for one still inside, never one inside for one
\* that has left; only an event that was lost can do that.  The next event of
\* the same vehicle and fence that is published heals both.
ConsumersAgree ==
    \A v \in Vehicles, f \in Fences :
        <<v, f>> \notin doubtful \union Pending =>
            /\ f \in lastPosition[v] => view[<<v, f>>] = "Enter"
            /\ view[<<v, f>>] = "Enter" => f \in lastPosition[v] \/ <<v, f>> \in forgotten
============================================================================
