--------------------------- MODULE EventDelivery ---------------------------
(***************************************************************************)
(* What the event bus of the API promises (the docstring of                *)
(* services/api/cargotrack/streams.py: "a persistent, at-least-once event  *)
(* stream"), with no word of consumers, batches or pending lists.          *)
(*                                                                         *)
(* Accepted events are numbered from 1.  An event is resolved when its     *)
(* handler has run, when no handler is registered for it or when it was    *)
(* dead-lettered; it is settled when no worker will be given it again.     *)
(* Only the newest Retention events are sure to be kept.                   *)
(***************************************************************************)
EXTENDS Naturals

CONSTANT Retention

VARIABLES accepted, expired, resolved, settled

vars == <<accepted, expired, resolved, settled>>

Init ==
  /\ accepted = 0
  /\ expired = 0
  /\ resolved = {}
  /\ settled = {}

\* An event is accepted; events older than the newest Retention may expire.
Accept ==
  /\ accepted' = accepted + 1
  /\ expired' \in expired .. accepted'
  /\ expired' = expired \/ expired' + Retention <= accepted'
  /\ UNCHANGED <<resolved, settled>>

Resolve(i) ==
  /\ i \in 1 .. accepted
  /\ resolved' = resolved \cup {i}
  /\ UNCHANGED <<accepted, expired, settled>>

\* Events are given up for good: each was resolved or has expired.
Settle ==
  /\ settled \subseteq settled'
  /\ \A i \in settled' \ settled : i \in 1 .. accepted /\ (i \in resolved \/ i <= expired)
  /\ UNCHANGED <<accepted, expired, resolved>>

Next == Accept \/ Settle \/ \E i \in 1 .. accepted : Resolve(i)

Spec == Init /\ [][Next]_vars
=============================================================================
