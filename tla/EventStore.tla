----------------------------- MODULE EventStore -----------------------------
(***************************************************************************)
(* What the tracking ingestion service promises to devices, with no word   *)
(* of buffers, signals, batches or of the two ways to insert a batch: an   *)
(* event that was received is held until it is stored or its loss is on    *)
(* record, it is stored a second time at most when the first answer was    *)
(* lost, and only what was received is acknowledged.                       *)
(***************************************************************************)
EXTENDS Naturals

CONSTANT Events

VARIABLES held,      \* received, and not yet stored or given up
          acked,     \* acknowledged to the device
          rows,      \* how often the database holds each event
          doubtful,  \* stored, but the answer that says so was lost
          gone       \* given up, with a trace

vars == <<held, acked, rows, doubtful, gone>>

Init ==
    /\ held = {} /\ acked = {}
    /\ rows = [e \in Events |-> 0]
    /\ doubtful = {} /\ gone = {}

Known == held \union gone \union {e \in Events : rows[e] > 0}

Receive(e) ==
    /\ e \notin Known
    /\ held' = held \union {e}
    /\ UNCHANGED <<acked, rows, doubtful, gone>>

Acknowledge(e) ==
    /\ e \in Known
    /\ acked' = acked \union {e}
    /\ UNCHANGED <<held, rows, doubtful, gone>>

\* The events of S are stored, with or without an answer, and some of those
\* held are let go: each is stored by now, or given up.
Store(S) ==
    /\ S \subseteq held
    /\ \A e \in S : rows[e] = 0 \/ (rows[e] = 1 /\ e \in doubtful)
    /\ rows' = [e \in Events |-> IF e \in S THEN rows[e] + 1 ELSE rows[e]]
    /\ doubtful' \in {doubtful, doubtful \union S}
    /\ held' \subseteq held
    /\ gone \subseteq gone' /\ gone' \subseteq gone \union held
    /\ \A e \in held \ held' : rows'[e] > 0 \/ e \in gone'
    /\ UNCHANGED acked

Next ==
    \/ \E e \in Events : Receive(e) \/ Acknowledge(e)
    \/ \E S \in SUBSET held : Store(S)

Spec == Init /\ [][Next]_vars
=============================================================================
