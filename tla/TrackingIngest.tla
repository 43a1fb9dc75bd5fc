-------------------------- MODULE TrackingIngest --------------------------
(***************************************************************************)
(* The tracking ingestion service (tracking-server/main.go): requests      *)
(* append events to a buffer and are answered with 202; one goroutine      *)
(* takes the buffer at a tick of its timer and writes it with COPY, and    *)
(* with a second transaction when that reports an error, both under one    *)
(* deadline of 30 s.  Nothing of the memory survives the process.          *)
(***************************************************************************)
EXTENDS Naturals, FiniteSets

CONSTANTS Events,      \* each is posted once
          BatchSize,   \* batchSize
          MaxCrashes   \* bound on the crashes of a behaviour

ASSUME IngestAssumption == BatchSize \in Nat \ {0} /\ MaxCrashes \in Nat

VARIABLES buf,        \* ing.buf
          adding,     \* appended, their Add or their response not finished
          wantsFlush, \* those of them whose Add found the buffer full
          flush,      \* the channel flush holds its one signal
          ticked,     \* the channel of the ticker holds a tick
          flusher,    \* where flushLoop stands: idle, or in one of the two inserts
          batch,      \* the batch it writes
          expired,    \* the deadline of the batch has passed
          acked,      \* answered with 202
          table,      \* how many rows the table holds of each event
          reported,   \* "batch insert failed" was logged for them
          unanswered, \* COPY committed them and failed all the same, before the deadline
          lost,       \* in memory at a crash
          crashes

bufferVars  == <<buf, adding, wantsFlush, acked>>
historyVars == <<unanswered, lost, crashes>>
ingestVars  == <<buf, adding, wantsFlush, flush, ticked, flusher, batch, expired, acked,
                 table, reported, unanswered, lost, crashes>>

IngestTypeOK ==
    /\ buf \subseteq Events /\ adding \subseteq Events /\ wantsFlush \subseteq adding
    /\ flush \in BOOLEAN /\ ticked \in BOOLEAN /\ expired \in BOOLEAN
    /\ flusher \in {"idle", "copy", "rows"}
    /\ batch \subseteq Events
    /\ acked \subseteq Events
    /\ table \in [Events -> 0..2]
    /\ reported \subseteq Events /\ unanswered \subseteq Events /\ lost \subseteq Events
    /\ crashes \in 0..MaxCrashes

IngestInit ==
    /\ buf = {} /\ adding = {} /\ wantsFlush = {}
    /\ flush = FALSE /\ ticked = FALSE
    /\ flusher = "idle" /\ batch = {} /\ expired = FALSE
    /\ acked = {}
    /\ table = [e \in Events |-> 0]
    /\ reported = {} /\ unanswered = {} /\ lost = {}
    /\ crashes = 0

Posted == buf \union batch \union adding \union acked \union reported \union lost
              \union {e \in Events : table[e] > 0}

---------------------------------------------------------------------------
(* The requests                                                            *)

\* Add, under the lock.  A refused request changes nothing.
Add(e) ==
    /\ e \notin Posted
    /\ buf' = buf \union {e}
    /\ adding' = adding \union {e}
    /\ wantsFlush' = IF Cardinality(buf') >= BatchSize THEN wantsFlush \union {e} ELSE wantsFlush
    /\ UNCHANGED <<flush, ticked, flusher, batch, expired, acked, table, reported, historyVars>>

\* Mutant: shouldFlush is kept beyond the call.
RespondKeepsFlag(e) ==
    /\ e \in adding
    /\ flush' = (flush \/ e \in wantsFlush)
    /\ adding' = adding \ {e}
    /\ acked' = acked \union {e}
    /\ UNCHANGED <<buf, wantsFlush, ticked, flusher, batch, expired, table, reported, historyVars>>

\* The rest of Add after the unlock, and the 202.
Respond(e) ==
    /\ e \in adding
    /\ flush' = (flush \/ e \in wantsFlush)
    /\ adding' = adding \ {e}
    /\ wantsFlush' = wantsFlush \ {e}
    /\ acked' = acked \union {e}
    /\ UNCHANGED <<buf, ticked, flusher, batch, expired, table, reported, historyVars>>

---------------------------------------------------------------------------
(* flushLoop                                                               *)

\* A tick that finds neither an event nor a signal changes nothing, and is
\* left out.
Tick ==
    /\ ~ticked
    /\ buf # {} \/ flush
    /\ ticked' = TRUE
    /\ UNCHANGED <<bufferVars, flush, flusher, batch, expired, table, reported, historyVars>>

\* Mutant: a tick without a signal flushes nothing.
TakeBatchOnSignal ==
    /\ flusher = "idle" /\ ticked
    /\ ticked' = FALSE
    /\ flush' = FALSE
    /\ batch' = IF flush THEN buf ELSE {}
    /\ buf' = buf \ batch'
    /\ flusher' = IF batch' = {} THEN "idle" ELSE "copy"
    /\ UNCHANGED <<adding, wantsFlush, expired, acked, table, reported, historyVars>>

\* A tick is taken, and the signal with it: the first half of flushBatch
\* takes the buffer, unless it is empty.
TakeBatch ==
    /\ flusher = "idle" /\ ticked
    /\ ticked' = FALSE
    /\ flush' = FALSE
    /\ batch' = buf
    /\ buf' = {}
    /\ flusher' = IF buf = {} THEN "idle" ELSE "copy"
    /\ UNCHANGED <<adding, wantsFlush, expired, acked, table, reported, historyVars>>

Insert == [e \in Events |-> IF e \in batch THEN table[e] + 1 ELSE table[e]]

BatchDone ==
    /\ flusher' = "idle"
    /\ batch' = {}
    /\ expired' = FALSE

\* Mutant: the fallback runs after a COPY that succeeded.
CopyInsertGoesOn ==
    /\ flusher = "copy"
    /\ table' = Insert
    /\ flusher' = "rows"
    /\ UNCHANGED <<bufferVars, flush, ticked, batch, expired, reported, historyVars>>

CopyInsert ==
    /\ flusher = "copy"
    /\ table' = Insert
    /\ BatchDone
    /\ UNCHANGED <<bufferVars, flush, ticked, reported, historyVars>>

\* It reports an error, because of the deadline or not; the transaction may
\* have been committed by the server all the same.
CopyFails(late, committed) ==
    /\ flusher = "copy"
    /\ table' = IF committed THEN Insert ELSE table
    /\ expired' = late
    /\ unanswered' = IF committed /\ ~late THEN unanswered \union batch ELSE unanswered
    /\ flusher' = "rows"
    /\ UNCHANGED <<bufferVars, flush, ticked, batch, reported, lost, crashes>>

\* No transaction begins after the deadline.
RowInsert ==
    /\ flusher = "rows" /\ ~expired
    /\ table' = Insert
    /\ BatchDone
    /\ UNCHANGED <<bufferVars, flush, ticked, reported, historyVars>>

RowsFail(committed) ==
    /\ flusher = "rows"
    /\ committed => ~expired
    /\ table' = IF committed THEN Insert ELSE table
    /\ reported' = reported \union batch
    /\ BatchDone
    /\ UNCHANGED <<bufferVars, flush, ticked, historyVars>>

\* The process ends: a crash, or a new release (signals are not handled).  A
\* transaction that is under way is committed by the server or is not.
IngestCrash ==
    /\ crashes < MaxCrashes
    /\ crashes' = crashes + 1
    /\ lost' = lost \union buf \union batch
    /\ table' \in IF flusher # "idle" /\ ~expired THEN {table, Insert} ELSE {table}
    /\ buf' = {} /\ adding' = {} /\ wantsFlush' = {}
    /\ flush' = FALSE /\ ticked' = FALSE
    /\ BatchDone
    /\ UNCHANGED <<acked, reported, unanswered>>

IngestNext ==
    \/ \E e \in Events : Add(e) \/ Respond(e)
    \/ Tick
    \/ TakeBatch
    \/ CopyInsert
    \/ \E late, committed \in BOOLEAN : CopyFails(late, committed)
    \/ RowInsert
    \/ \E committed \in BOOLEAN : RowsFail(committed)
    \/ IngestCrash

\* The ticker ticks, the goroutine takes its ticks, and the deadline ends
\* both inserts; nobody has to post, and no insert has to succeed.
IngestFairness ==
    /\ WF_ingestVars(Tick)
    /\ WF_ingestVars(TakeBatch)
    /\ WF_ingestVars(CopyInsert \/ \E late, committed \in BOOLEAN : CopyFails(late, committed))
    /\ WF_ingestVars(RowInsert \/ \E committed \in BOOLEAN : RowsFail(committed))

IngestSpec == IngestInit /\ [][IngestNext]_ingestVars /\ IngestFairness

---------------------------------------------------------------------------
(* Properties                                                              *)

\* The fallback after a failed COPY and the hand-over of the buffer store no
\* event twice, but for a COPY that was committed and whose answer was lost
\* while there was time for the fallback.
StoredOnce ==
    \A e \in Events : table[e] > 1 => e \in unanswered

Storage == INSTANCE EventStore
              WITH held <- buf \union batch, rows <- table, doubtful <- unanswered,
                   gone <- reported \union lost

\* The service is a store of events (main.go): the buffer, the hand-over to the
\* flush loop, COPY with its fallback under one deadline, and a crash in any of
\* them never drop an event without a trace, store one again that is stored for
\* sure, or acknowledge one that was not received.
IngestIsStore == Storage!Spec

\* No event that was answered with 202 stays in memory for ever, and none
\* vanishes without a trace: it is stored, or its loss is in the log, or the
\* process has ended with it.
AckedIsSettled ==
    \A e \in Events :
        e \in acked ~> (table[e] > 0 \/ e \in reported \/ e \in lost)
============================================================================
