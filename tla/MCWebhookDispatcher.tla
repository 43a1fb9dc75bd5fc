------------------------ MODULE MCWebhookDispatcher ------------------------
(***************************************************************************)
(* Instances of the dispatcher.  The first has three shipment events for   *)
(* one endpoint: enough deliveries to open the circuit, probe it, have the *)
(* probe cut short and probe it again.  The second has every way a         *)
(* delivery can end: an event without valid JSON, an endpoint no request   *)
(* can be made for, an inactive registration, an event nobody asked for.   *)
(***************************************************************************)
EXTENDS WebhookDispatcher, TLC

CONSTANTS e1, e2, e3, e4, r1, r2, r3, u1, u2, shipment, alert, gps

MCEventType ==
  [e \in Events |-> CASE e = e3 /\ e4 \in Events -> alert
                      [] e = e4 -> gps
                      [] OTHER -> shipment]

MCSubscribed == [r \in Regs |-> CASE r = r1 -> {shipment}
                                  [] r = r2 -> {alert}
                                  [] r = r3 -> {alert, shipment}]

MCUrl == [r \in Regs |-> IF r = r2 THEN u2 ELSE u1]

\* The waits of main.go are 5m, 15m, ... against an openTimeout of 30s.
MCSchedule == <<1, 2, 2>>

Symmetry == Permutations({e1, e2, e3})
=============================================================================
