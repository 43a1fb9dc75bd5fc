---------------------------- MODULE IngestProofs ----------------------------
(***************************************************************************)
(* Theorems about the two components that take positions in: the ingest    *)
(* endpoint of tracking (TrackingIngest), for any events, batch size and   *)
(* number of crashes, and the fence detector of the GPS gateway            *)
(* (GeofenceDetector), for any vehicles and fences.  They share no state.  *)
(***************************************************************************)
EXTENDS TrackingIngest, GeofenceDetector, TLAPS

---------------------------------------------------------------------------
(* TrackingIngest: the invariant                                           *)

\* An event in the buffer is not stored and not in the batch; one in the batch
\* is not stored before its COPY, and at the fallback it is stored only when the
\* deadline forbids to store it again or the answer of the COPY was lost.
InMemory ==
    /\ \A e \in buf : table[e] = 0 /\ e \notin batch
    /\ \A e \in batch :
        \/ flusher = "copy" /\ table[e] = 0
        \/ flusher = "rows" /\ table[e] = 0
        \/ flusher = "rows" /\ table[e] = 1 /\ (expired \/ e \in unanswered)

\* No event that was posted vanishes without a trace: it is in memory, stored,
\* in the log as failed, or was in memory at a crash.
Traced ==
    \A e \in acked \union adding :
        e \in buf \union batch \union reported \union lost \/ table[e] > 0

StoringInv == IngestTypeOK /\ InMemory /\ StoredOnce /\ Traced

---------------------------------------------------------------------------
(* The insert of a batch                                                   *)

\* What one committed transaction does to the table.
LEMMA InsertFacts ==
    ASSUME StoringInv, flusher # "idle"
    PROVE  /\ ~expired \/ flusher = "copy" => Insert \in [Events -> 0..2]
           /\ \A e \in batch : Insert[e] = table[e] + 1
           /\ \A e \in Events \ batch : Insert[e] = table[e]
           /\ \A e \in batch : Insert[e] > 0
  <1>1. \A e \in Events : table[e] \in 0..2
    BY DEF StoringInv, IngestTypeOK
  <1>2. batch \subseteq Events
    BY DEF StoringInv, IngestTypeOK
  <1>3. \A e \in batch : Insert[e] = table[e] + 1
    BY <1>2 DEF Insert
  <1>4. \A e \in Events \ batch : Insert[e] = table[e]
    BY DEF Insert
  <1>5. \A e \in batch : table[e] \in 0..1
    BY DEF StoringInv, InMemory
  <1>6. \A e \in batch : Insert[e] \in 0..2 /\ Insert[e] > 0
    BY <1>3, <1>5
  <1>7. \A e \in Events : Insert[e] \in 0..2
    BY <1>1, <1>4, <1>6
  <1>8. Insert \in [Events -> 0..2]
    BY <1>7 DEF Insert
  <1> QED
    BY <1>3, <1>4, <1>6, <1>8

\* An empty batch changes nothing.
LEMMA EmptyInsert ==
    ASSUME StoringInv
    PROVE  Insert = IF batch = {} THEN table ELSE Insert
  <1>1. table = [e \in Events |-> table[e]]
    BY DEF StoringInv, IngestTypeOK
  <1> QED
    BY <1>1 DEF Insert

\* Where the batch is inserted a second time, its answer was lost.
LEMMA InsertOnce ==
    ASSUME StoringInv, flusher # "idle", flusher = "copy" \/ ~expired
    PROVE  \A e \in Events : Insert[e] > 1 => e \in unanswered
  <1> SUFFICES ASSUME NEW e \in Events, Insert[e] > 1
               PROVE  e \in unanswered
    OBVIOUS
  <1>1. CASE e \in batch
    <2>1. Insert[e] = table[e] + 1
      BY <1>1, InsertFacts
    <2>2. \/ flusher = "copy" /\ table[e] = 0
          \/ flusher = "rows" /\ table[e] = 0
          \/ flusher = "rows" /\ table[e] = 1 /\ (expired \/ e \in unanswered)
      BY <1>1 DEF StoringInv, InMemory
    <2> QED
      BY <2>1, <2>2
  <1>2. CASE e \notin batch
    <2>1. Insert[e] = table[e]
      BY <1>2, InsertFacts
    <2> QED
      BY <2>1 DEF StoringInv, StoredOnce
  <1> QED
    BY <1>1, <1>2

---------------------------------------------------------------------------
(* The steps                                                               *)

LEMMA IngestInitInv == IngestInit => StoringInv
  <1> SUFFICES ASSUME IngestInit
               PROVE  StoringInv
    OBVIOUS
  <1>1. IngestTypeOK
    <2>1. table \in [Events -> 0..2]
      BY DEF IngestInit
    <2>2. crashes \in 0..MaxCrashes
      BY IngestAssumption DEF IngestInit, IngestAssumption
    <2> QED
      BY <2>1, <2>2 DEF IngestInit, IngestTypeOK
  <1>2. \A e \in Events : table[e] = 0
    BY DEF IngestInit
  <1>3. InMemory /\ StoredOnce /\ Traced
    BY <1>2 DEF IngestInit, InMemory, StoredOnce, Traced
  <1> QED
    BY <1>1, <1>3 DEF StoringInv

LEMMA RequestStep ==
    ASSUME StoringInv, NEW e \in Events, Add(e) \/ Respond(e)
    PROVE  StoringInv'
  <1> USE DEF StoringInv, bufferVars, historyVars
  <1>1. CASE Add(e)
    <2>1. table[e] = 0 /\ e \notin batch
      BY <1>1 DEF Add, Posted, IngestTypeOK
    <2>2. IngestTypeOK'
      BY <1>1 DEF Add, IngestTypeOK
    <2>3. InMemory'
      BY <1>1, <2>1 DEF Add, InMemory
    <2>4. StoredOnce' /\ Traced'
      BY <1>1 DEF Add, StoredOnce, Traced
    <2> QED
      BY <2>2, <2>3, <2>4
  <1>2. CASE Respond(e)
    <2>1. IngestTypeOK'
      BY <1>2 DEF Respond, IngestTypeOK
    <2> QED
      BY <1>2, <2>1 DEF Respond, InMemory, StoredOnce, Traced
  <1> QED
    BY <1>1, <1>2

LEMMA TickStep ==
    ASSUME StoringInv, Tick \/ TakeBatch
    PROVE  StoringInv'
  <1> USE DEF StoringInv, bufferVars, historyVars
  <1>1. CASE Tick
    BY <1>1 DEF Tick, IngestTypeOK, InMemory, StoredOnce, Traced
  <1>2. CASE TakeBatch
    <2>1. IngestTypeOK'
      BY <1>2 DEF TakeBatch, IngestTypeOK
    <2>2. batch = {}
      BY <1>2 DEF TakeBatch, InMemory
    <2>3. InMemory'
      BY <1>2 DEF TakeBatch, InMemory
    <2>4. StoredOnce' /\ Traced'
      BY <1>2, <2>2 DEF TakeBatch, StoredOnce, Traced
    <2> QED
      BY <2>1, <2>3, <2>4
  <1> QED
    BY <1>1, <1>2

\* A batch that is done is in the table or in the log.
LEMMA DoneStep ==
    ASSUME StoringInv, CopyInsert \/ RowInsert \/ \E committed \in BOOLEAN : RowsFail(committed)
    PROVE  StoringInv'
  <1>1. /\ flusher # "idle" /\ BatchDone
        /\ UNCHANGED <<buf, adding, wantsFlush, acked, flush, ticked, unanswered, lost, crashes>>
    BY DEF CopyInsert, RowInsert, RowsFail, bufferVars, historyVars
  <1>2. \/ table' = table /\ reported' = reported \union batch
        \/ /\ table' = Insert /\ reported' \in {reported, reported \union batch}
           /\ flusher = "copy" \/ ~expired
    BY DEF CopyInsert, RowInsert, RowsFail
  <1>3. IngestTypeOK'
    BY <1>1, <1>2, InsertFacts DEF StoringInv, IngestTypeOK, BatchDone
  <1>4. \A e \in buf : table'[e] = table[e]
    BY <1>1, <1>2, InsertFacts DEF StoringInv, IngestTypeOK, InMemory
  <1>5. InMemory'
    BY <1>1, <1>4 DEF StoringInv, InMemory, BatchDone
  <1>6. StoredOnce'
    BY <1>1, <1>2, InsertOnce DEF StoringInv, StoredOnce
  <1>7. \A e \in Events : table[e] > 0 => table'[e] > 0
    BY <1>1, <1>2, InsertFacts DEF StoringInv
  <1>8. \A e \in batch : table'[e] > 0 \/ e \in reported'
    BY <1>1, <1>2, InsertFacts
  <1>9. reported \subseteq reported'
    BY <1>2
  <1>10. Traced'
    BY <1>1, <1>7, <1>8, <1>9 DEF StoringInv, Traced, IngestTypeOK
  <1> QED
    BY <1>3, <1>5, <1>6, <1>10 DEF StoringInv

LEMMA CopyFailsStep ==
    ASSUME StoringInv, NEW late \in BOOLEAN, NEW committed \in BOOLEAN, CopyFails(late, committed)
    PROVE  StoringInv'
  <1>1. /\ flusher = "copy" /\ flusher' = "rows" /\ expired' = late
        /\ unanswered' = IF committed /\ ~late THEN unanswered \union batch ELSE unanswered
        /\ UNCHANGED <<buf, adding, wantsFlush, acked, flush, ticked, batch, reported, lost, crashes>>
    BY DEF CopyFails, bufferVars
  <1>2. table' = IF committed THEN Insert ELSE table
    BY DEF CopyFails
  <1>3. IngestTypeOK'
    BY <1>1, <1>2, InsertFacts DEF StoringInv, IngestTypeOK
  <1>4. \A e \in buf : table'[e] = table[e]
    BY <1>1, <1>2, InsertFacts DEF StoringInv, IngestTypeOK, InMemory
  <1>5. \A e \in batch : table[e] = 0
    BY <1>1 DEF StoringInv, InMemory
  <1>6. \A e \in batch : table'[e] = 0 \/ (table'[e] = 1 /\ (expired' \/ e \in unanswered'))
    <2>1. CASE committed
      <3>1. \A e \in batch : table'[e] = table[e] + 1
        BY <1>1, <1>2, <2>1, InsertFacts
      <3>2. \A e \in batch : expired' \/ e \in unanswered'
        BY <1>1, <2>1
      <3>3. \A e \in batch : table'[e] = 1
        BY <1>5, <3>1
      <3> QED
        BY <3>2, <3>3
    <2>2. CASE ~committed
      BY <1>2, <1>5, <2>2
    <2> QED
      BY <2>1, <2>2
  <1>7. InMemory'
    BY <1>1, <1>4, <1>6 DEF StoringInv, InMemory
  <1>8. StoredOnce'
    BY <1>1, <1>2, InsertOnce DEF StoringInv, StoredOnce
  <1>9. \A e \in Events : table[e] > 0 => table'[e] > 0
    BY <1>1, <1>2, InsertFacts DEF StoringInv
  <1>10. Traced'
    BY <1>1, <1>9 DEF StoringInv, Traced, IngestTypeOK
  <1> QED
    BY <1>3, <1>7, <1>8, <1>10 DEF StoringInv

LEMMA CrashStep ==
    ASSUME StoringInv, IngestCrash
    PROVE  StoringInv'
  <1>1. /\ crashes < MaxCrashes /\ crashes' = crashes + 1
        /\ lost' = lost \union buf \union batch
        /\ buf' = {} /\ adding' = {} /\ wantsFlush' = {} /\ flush' = FALSE /\ ticked' = FALSE
        /\ BatchDone
        /\ UNCHANGED <<acked, reported, unanswered>>
    BY DEF IngestCrash
  <1>2. table' = table \/ (table' = Insert /\ flusher # "idle" /\ ~expired)
    BY DEF IngestCrash
  <1>3. IngestTypeOK'
    <2>1. crashes' \in 0..MaxCrashes
      BY <1>1, IngestAssumption DEF StoringInv, IngestTypeOK, IngestAssumption
    <2> QED
      BY <1>1, <1>2, <2>1, InsertFacts DEF StoringInv, IngestTypeOK, BatchDone
  <1>4. InMemory'
    BY <1>1 DEF InMemory, BatchDone
  <1>5. StoredOnce'
    BY <1>1, <1>2, InsertOnce DEF StoringInv, StoredOnce
  <1>6. \A e \in Events : table[e] > 0 => table'[e] > 0
    BY <1>1, <1>2, InsertFacts DEF StoringInv
  <1>7. Traced'
    BY <1>1, <1>6 DEF StoringInv, Traced, IngestTypeOK
  <1> QED
    BY <1>3, <1>4, <1>5, <1>7 DEF StoringInv

LEMMA IngestNextInv == StoringInv /\ [IngestNext]_ingestVars => StoringInv'
  <1> SUFFICES ASSUME StoringInv, [IngestNext]_ingestVars
               PROVE  StoringInv'
    OBVIOUS
  <1>1. CASE \E e \in Events : Add(e) \/ Respond(e)
    BY <1>1, RequestStep
  <1>2. CASE Tick \/ TakeBatch
    BY <1>2, TickStep
  <1>3. CASE CopyInsert \/ RowInsert \/ \E committed \in BOOLEAN : RowsFail(committed)
    BY <1>3, DoneStep
  <1>4. CASE \E late, committed \in BOOLEAN : CopyFails(late, committed)
    BY <1>4, CopyFailsStep
  <1>5. CASE IngestCrash
    BY <1>5, CrashStep
  <1>6. CASE UNCHANGED ingestVars
    BY <1>6 DEF ingestVars, StoringInv, IngestTypeOK, InMemory, StoredOnce, Traced
  <1> QED
    BY <1>1, <1>2, <1>3, <1>4, <1>5, <1>6 DEF IngestNext

---------------------------------------------------------------------------
(* The theorems                                                            *)

LEMMA IngestInvariant == IngestSpec => []StoringInv
  BY IngestInitInv, IngestNextInv, PTL DEF IngestSpec

\* Every variable keeps its type; in particular no event is ever stored more
\* than twice, whatever fails.
THEOREM IngestTypeCorrect == IngestSpec => []IngestTypeOK
  BY IngestInvariant, PTL DEF StoringInv

\* COPY, its fallback and the hand-over of the buffer store no event twice,
\* but for a COPY whose answer was lost while there was time for the fallback.
THEOREM EventsStoredOnce == IngestSpec => []StoredOnce
  BY IngestInvariant, PTL DEF StoringInv

\* No event that was answered with 202 vanishes without a trace: it is still in
\* memory, stored, in the log as failed, or was in memory at a crash.
THEOREM NoSilentLoss == IngestSpec => []Traced
  BY IngestInvariant, PTL DEF StoringInv

---------------------------------------------------------------------------
(* TrackingIngest implements EventStore                                    *)

\* An event of the batch may be inserted where a transaction can commit: it has
\* no row yet, or one row whose answer was lost.
LEMMA InsertAllowed ==
    ASSUME StoringInv, flusher # "idle", flusher = "copy" \/ ~expired
    PROVE  \A e \in batch : table[e] = 0 \/ (table[e] = 1 /\ e \in unanswered)
  BY DEF StoringInv, InMemory

\* A step that inserts the batch, or nothing, is one of the abstract store when
\* it lets go only what has a row or is on record as gone.
LEMMA StoreStep ==
    ASSUME StoringInv, NEW S \in {{}, batch},
           S = {} \/ (flusher # "idle" /\ (flusher = "copy" \/ ~expired)),
           table' = IF S = {} THEN table ELSE Insert,
           unanswered' \in {unanswered, unanswered \union S},
           buf' \union batch' \subseteq buf \union batch,
           reported \union lost \subseteq reported' \union lost',
           reported' \union lost' \subseteq reported \union lost \union (buf \union batch),
           \A e \in (buf \union batch) \ (buf' \union batch') :
                table'[e] > 0 \/ e \in reported' \union lost',
           acked' = acked
    PROVE  Storage!Next
  <1>1. \A e \in S : table[e] = 0 \/ (table[e] = 1 /\ e \in unanswered)
    BY InsertAllowed
  <1>2. table' = [e \in Events |-> IF e \in S THEN table[e] + 1 ELSE table[e]]
    <2>1. CASE S = {}
      <3>1. table = [e \in Events |-> table[e]]
        BY DEF StoringInv, IngestTypeOK
      <3> QED
        BY <2>1, <3>1
    <2>2. CASE S # {}
      BY <2>2 DEF Insert
    <2> QED
      BY <2>1, <2>2
  <1>3. S \in SUBSET (buf \union batch)
    OBVIOUS
  <1>4. Storage!Store(S)
    BY <1>1, <1>2, <1>3 DEF Storage!Store
  <1> QED
    BY <1>3, <1>4 DEF Storage!Next

LEMMA IngestStepRefines ==
    ASSUME StoringInv, [IngestNext]_ingestVars
    PROVE  [Storage!Next]_(Storage!vars)
  <1> USE DEF bufferVars, historyVars
  <1>1. ASSUME NEW e \in Events, Add(e)
        PROVE  Storage!Next
    <2>1. e \notin Storage!Known
      BY <1>1 DEF Add, Posted, Storage!Known
    <2>2. Storage!Receive(e)
      BY <1>1, <2>1 DEF Add, Storage!Receive
    <2> QED
      BY <2>2 DEF Storage!Next
  <1>2. ASSUME NEW e \in Events, Respond(e)
        PROVE  Storage!Next
    <2>1. e \in Storage!Known
      BY <1>2 DEF Respond, StoringInv, Traced, Storage!Known
    <2>2. Storage!Acknowledge(e)
      BY <1>2, <2>1 DEF Respond, Storage!Acknowledge
    <2> QED
      BY <2>2 DEF Storage!Next
  <1>3. CASE Tick \/ UNCHANGED ingestVars
    BY <1>3 DEF Tick, ingestVars, Storage!vars
  <1>4. CASE TakeBatch
    <2>1. batch = {}
      BY <1>4 DEF TakeBatch, StoringInv, InMemory
    <2> QED
      BY <1>4, <2>1 DEF TakeBatch, Storage!vars
  <1>5. CASE CopyInsert \/ RowInsert
    <2>1. /\ flusher # "idle" /\ (flusher = "copy" \/ ~expired)
          /\ table' = Insert /\ batch' = {} /\ UNCHANGED <<buf, acked, reported, unanswered, lost>>
      BY <1>5 DEF CopyInsert, RowInsert, BatchDone
    <2>2. \A e \in batch : table'[e] > 0
      BY <2>1, InsertFacts
    <2>3. table' = IF batch = {} THEN table ELSE Insert
      BY <2>1, EmptyInsert
    <2> QED
      BY <2>1, <2>2, <2>3, StoreStep
  <1>6. ASSUME NEW late \in BOOLEAN, NEW committed \in BOOLEAN, CopyFails(late, committed)
        PROVE  [Storage!Next]_(Storage!vars)
    <2>1. /\ flusher = "copy" /\ UNCHANGED <<buf, batch, acked, reported, lost>>
          /\ table' = IF committed THEN Insert ELSE table
          /\ unanswered' = IF committed /\ ~late THEN unanswered \union batch ELSE unanswered
      BY <1>6 DEF CopyFails
    <2>2. CASE committed
      <3>1. table' = IF batch = {} THEN table ELSE Insert
        BY <2>1, <2>2, EmptyInsert
      <3> QED
        BY <2>1, <2>2, <3>1, StoreStep
    <2>3. CASE ~committed
      BY <2>1, <2>3 DEF Storage!vars
    <2> QED
      BY <2>2, <2>3
  <1>7. ASSUME NEW committed \in BOOLEAN, RowsFail(committed)
        PROVE  Storage!Next
    <2>1. /\ flusher = "rows" /\ (committed => ~expired)
          /\ table' = IF committed THEN Insert ELSE table
          /\ reported' = reported \union batch /\ batch' = {}
          /\ UNCHANGED <<buf, acked, unanswered, lost>>
      BY <1>7 DEF RowsFail, BatchDone
    <2>2. CASE committed
      <3>1. table' = IF batch = {} THEN table ELSE Insert
        BY <2>1, <2>2, EmptyInsert
      <3> QED
        BY <2>1, <2>2, <3>1, StoreStep
    <2>3. CASE ~committed
      <3> DEFINE S == {}
      <3>1. table' = IF S = {} THEN table ELSE Insert
        BY <2>1, <2>3
      <3> QED
        BY <2>1, <3>1, StoreStep
    <2> QED
      BY <2>2, <2>3
  <1>8. CASE IngestCrash
    <2>1. /\ lost' = lost \union buf \union batch /\ buf' = {} /\ batch' = {}
          /\ UNCHANGED <<acked, reported, unanswered>>
      BY <1>8 DEF IngestCrash, BatchDone
    <2>2. CASE flusher # "idle" /\ ~expired /\ table' = Insert
      <3>1. table' = IF batch = {} THEN table ELSE Insert
        BY <2>2, EmptyInsert
      <3> QED
        BY <2>1, <2>2, <3>1, StoreStep
    <2>3. CASE table' = table
      <3> DEFINE S == {}
      <3>1. table' = IF S = {} THEN table ELSE Insert
        BY <2>3
      <3> QED
        BY <2>1, <3>1, StoreStep
    <2>4. table' = table \/ (flusher # "idle" /\ ~expired /\ table' = Insert)
      BY <1>8 DEF IngestCrash
    <2> QED
      BY <2>2, <2>3, <2>4
  <1> QED
    BY <1>1, <1>2, <1>3, <1>4, <1>5, <1>6, <1>7, <1>8 DEF IngestNext

\* The service implements the store of events: the buffer, the hand-over, COPY
\* with its fallback and a crash in any of them are steps of it, or none.
THEOREM IngestRefinesStore == IngestSpec => IngestIsStore
  <1>1. IngestInit => Storage!Init
    BY DEF IngestInit, Storage!Init
  <1> QED
    BY <1>1, IngestInvariant, IngestStepRefines, PTL DEF IngestSpec, IngestIsStore, Storage!Spec

---------------------------------------------------------------------------
(* GeofenceDetector: the invariant                                         *)

\* The detector's two maps say the same.
Mirrored ==
    \A v \in Vehicles, f \in Fences : v \in vehiclesInside[f] <=> f \in vehicleGeofences[v]

\* The detector takes no vehicle to be where it is not, and where no restart
\* made it forget, it knows the vehicle's last position.
Known ==
    \A v \in Vehicles, f \in Fences :
        /\ f \in vehicleGeofences[v] => f \in lastPosition[v]
        /\ f \in lastPosition[v] => f \in vehicleGeofences[v] \/ <<v, f>> \in forgotten

\* An event in the outbox tells what the detector knows of its place, and that
\* is true of the vehicle's last position.
Telling ==
    \A e \in outbox :
        /\ e.type = "Enter" <=> e.place[2] \in lastPosition[e.place[1]]
        /\ e.type = "Enter" <=> e.place[2] \in vehicleGeofences[e.place[1]]

FenceInv == FenceTypeOK /\ Mirrored /\ Known /\ Telling /\ ConsumersAgree

---------------------------------------------------------------------------
(* The steps                                                               *)

LEMMA FenceInitInv == FenceInit => FenceInv
  BY DEF FenceInit, FenceInv, FenceTypeOK, Mirrored, Known, Telling, ConsumersAgree,
         Places, Crossing, Pending

\* An event of the outbox and its place.
LEMMA EventFacts ==
    ASSUME FenceInv, NEW e \in outbox
    PROVE  /\ e \in GeofenceEvent /\ e.place \in Places /\ e.type \in Crossing
           /\ e.place[1] \in Vehicles /\ e.place[2] \in Fences
           /\ e.place = <<e.place[1], e.place[2]>>
  <1>1. e \in GeofenceEvent
    BY DEF FenceInv, FenceTypeOK
  <1>2. e.place \in Places /\ e.type \in Crossing
    BY <1>1 DEF GeofenceEvent
  <1> QED
    BY <1>1, <1>2 DEF Places

LEMMA CheckPositionStep ==
    ASSUME FenceInv, NEW v \in Vehicles, NEW S \in SUBSET Fences, CheckPosition(v, S)
    PROVE  FenceInv'
  <1> DEFINE entered == S \ vehicleGeofences[v]
             left == vehicleGeofences[v] \ S
  <1>1. /\ vehicleGeofences \in [Vehicles -> SUBSET Fences]
        /\ vehiclesInside \in [Fences -> SUBSET Vehicles]
        /\ lastPosition \in [Vehicles -> SUBSET Fences]
    BY DEF FenceInv, FenceTypeOK
  <1>2. /\ outbox = {} /\ UNCHANGED <<view, doubtful, forgotten>>
        /\ vehicleGeofences' = [vehicleGeofences EXCEPT ![v] = (@ \union entered) \ left]
        /\ lastPosition' = [lastPosition EXCEPT ![v] = S]
        /\ vehiclesInside' = [f \in Fences |->
                                CASE f \in entered -> vehiclesInside[f] \union {v}
                                  [] f \in left -> vehiclesInside[f] \ {v}
                                  [] OTHER -> vehiclesInside[f]]
        /\ outbox' = [place : {v} \X entered, type : {"Enter"}]
                        \union [place : {v} \X left, type : {"Exit"}]
    BY DEF CheckPosition
  <1>3. entered \subseteq Fences /\ left \subseteq Fences
    BY <1>1
  <1>4. (vehicleGeofences[v] \union entered) \ left = S
    OBVIOUS
  <1>5. /\ vehicleGeofences'[v] = S /\ lastPosition'[v] = S
        /\ \A w \in Vehicles \ {v} : /\ vehicleGeofences'[w] = vehicleGeofences[w]
                                     /\ lastPosition'[w] = lastPosition[w]
    BY <1>1, <1>2, <1>4
  <1>6. \A f \in Fences :
            vehiclesInside'[f] = IF f \in entered THEN vehiclesInside[f] \union {v}
                                 ELSE IF f \in left THEN vehiclesInside[f] \ {v}
                                 ELSE vehiclesInside[f]
    BY <1>2
  <1>7. \A e \in outbox' :
            /\ e \in GeofenceEvent /\ e.place[1] = v
            /\ \/ e.type = "Enter" /\ e.place[2] \in entered
               \/ e.type = "Exit" /\ e.place[2] \in left
    BY <1>2, <1>3 DEF GeofenceEvent, Places, Crossing
  <1>8. \A f \in entered \union left : <<v, f>> \in Pending'
    <2> SUFFICES ASSUME NEW f \in entered \union left
                 PROVE  \E e \in outbox' : e.place = <<v, f>>
      BY DEF Pending
    <2>1. CASE f \in entered
      <3>1. [place |-> <<v, f>>, type |-> "Enter"] \in outbox'
        BY <1>2, <2>1
      <3> QED
        BY <3>1
    <2>2. CASE f \in left
      <3>1. [place |-> <<v, f>>, type |-> "Exit"] \in outbox'
        BY <1>2, <2>2
      <3> QED
        BY <3>1
    <2> QED
      BY <2>1, <2>2
  <1> HIDE DEF entered, left
  <1>9. FenceTypeOK'
    <2>1. vehiclesInside' \in [Fences -> SUBSET Vehicles]
      <3>1. \A f \in Fences : vehiclesInside'[f] \in SUBSET Vehicles
        BY <1>1, <1>6
      <3>2. vehiclesInside' = [f \in Fences |-> vehiclesInside'[f]]
        BY <1>2
      <3> QED
        BY <3>1, <3>2
    <2>2. /\ vehicleGeofences' \in [Vehicles -> SUBSET Fences]
          /\ lastPosition' \in [Vehicles -> SUBSET Fences]
      <3>1. (vehicleGeofences[v] \union entered) \ left \in SUBSET Fences
        BY <1>1, <1>3
      <3> QED
        BY <1>1, <1>2, <3>1
    <2>3. outbox' \subseteq GeofenceEvent
      BY <1>7
    <2> QED
      BY <1>2, <2>1, <2>2, <2>3 DEF FenceInv, FenceTypeOK
  <1>10. Mirrored'
    <2> SUFFICES ASSUME NEW w \in Vehicles, NEW f \in Fences
                 PROVE  w \in vehiclesInside'[f] <=> f \in vehicleGeofences'[w]
      BY DEF Mirrored
    <2>1. w \in vehiclesInside[f] <=> f \in vehicleGeofences[w]
      BY DEF FenceInv, Mirrored
    <2>2. CASE w = v
      BY <1>5, <1>6, <2>1, <2>2 DEF entered, left
    <2>3. CASE w # v
      BY <1>5, <1>6, <2>1, <2>3
    <2> QED
      BY <2>2, <2>3
  <1>11. Known'
    <2> SUFFICES ASSUME NEW w \in Vehicles, NEW f \in Fences
                 PROVE  /\ f \in vehicleGeofences'[w] => f \in lastPosition'[w]
                        /\ f \in lastPosition'[w] =>
                               f \in vehicleGeofences'[w] \/ <<w, f>> \in forgotten
      BY <1>2 DEF Known
    <2>1. /\ f \in vehicleGeofences[w] => f \in lastPosition[w]
          /\ f \in lastPosition[w] => f \in vehicleGeofences[w] \/ <<w, f>> \in forgotten
      BY DEF FenceInv, Known
    <2> QED
      BY <1>5, <2>1
  <1>12. Telling'
    BY <1>5, <1>7 DEF Telling, entered, left
  <1>13. ConsumersAgree'
    <2> SUFFICES ASSUME NEW w \in Vehicles, NEW f \in Fences,
                        <<w, f>> \notin doubtful, <<w, f>> \notin Pending'
                 PROVE  /\ f \in lastPosition'[w] => view[<<w, f>>] = "Enter"
                        /\ view[<<w, f>>] = "Enter" =>
                               f \in lastPosition'[w] \/ <<w, f>> \in forgotten
      BY <1>2 DEF ConsumersAgree
    <2>1. /\ f \in lastPosition[w] => view[<<w, f>>] = "Enter"
          /\ view[<<w, f>>] = "Enter" => f \in lastPosition[w] \/ <<w, f>> \in forgotten
      BY <1>2 DEF FenceInv, ConsumersAgree, Pending
    <2>2. CASE w = v
      <3>1. f \notin entered \union left
        BY <1>8, <2>2
      <3>2. f \in vehicleGeofences[v] <=> f \in S
        BY <3>1 DEF entered, left
      <3>3. /\ f \in vehicleGeofences[v] => f \in lastPosition[v]
            /\ f \in lastPosition[v] => f \in vehicleGeofences[v] \/ <<v, f>> \in forgotten
        BY DEF FenceInv, Known
      <3> QED
        BY <1>5, <2>1, <2>2, <3>2, <3>3
    <2>3. CASE w # v
      BY <1>5, <2>1, <2>3
    <2> QED
      BY <2>2, <2>3
  <1> QED
    BY <1>9, <1>10, <1>11, <1>12, <1>13 DEF FenceInv

\* Published or lost, an event leaves the outbox, and only its place changes.
LEMMA PublishStep ==
    ASSUME FenceInv, NEW e \in outbox, PublishEvent(e) \/ PublishFails(e)
    PROVE  FenceInv'
  <1>1. /\ outbox' = outbox \ {e}
        /\ UNCHANGED <<vehicleGeofences, vehiclesInside, lastPosition>>
    BY DEF PublishEvent, PublishFails, detectorVars
  <1>2. \/ /\ view' = [view EXCEPT ![e.place] = e.type] /\ doubtful' = doubtful \ {e.place}
           /\ forgotten' = forgotten \ {e.place}
        \/ /\ view' \in {view, [view EXCEPT ![e.place] = e.type]}
           /\ doubtful' = doubtful \union {e.place} /\ forgotten' = forgotten
    BY DEF PublishEvent, PublishFails
  <1>3. /\ e.place \in Places /\ e.type \in Crossing
        /\ e.place[1] \in Vehicles /\ e.place[2] \in Fences
        /\ e.place = <<e.place[1], e.place[2]>>
    BY EventFacts
  <1>4. view \in [Places -> Crossing] /\ doubtful \subseteq Places /\ forgotten \subseteq Places
    BY DEF FenceInv, FenceTypeOK
  <1>5. view' \in [Places -> Crossing] /\ doubtful' \subseteq Places
        /\ forgotten' \subseteq Places
    BY <1>2, <1>3, <1>4
  <1>6. FenceTypeOK'
    BY <1>1, <1>5 DEF FenceInv, FenceTypeOK
  <1>7. Mirrored' /\ Telling'
    BY <1>1 DEF FenceInv, Mirrored, Telling
  <1>8. /\ e.type = "Enter" <=> e.place[2] \in lastPosition[e.place[1]]
        /\ e.type = "Enter" <=> e.place[2] \in vehicleGeofences[e.place[1]]
    BY DEF FenceInv, Telling
  <1>9. Known'
    <2> SUFFICES ASSUME NEW v \in Vehicles, NEW f \in Fences
                 PROVE  /\ f \in vehicleGeofences[v] => f \in lastPosition[v]
                        /\ f \in lastPosition[v] =>
                               f \in vehicleGeofences[v] \/ <<v, f>> \in forgotten'
      BY <1>1 DEF Known
    <2>1. CASE <<v, f>> = e.place
      BY <1>8, <2>1
    <2>2. CASE <<v, f>> # e.place
      <3>1. <<v, f>> \in forgotten => <<v, f>> \in forgotten'
        BY <1>2, <2>2
      <3> QED
        BY <3>1 DEF FenceInv, Known
    <2> QED
      BY <2>1, <2>2
  <1>10. ConsumersAgree'
    <2> SUFFICES ASSUME NEW v \in Vehicles, NEW f \in Fences,
                        <<v, f>> \notin doubtful', <<v, f>> \notin Pending'
                 PROVE  /\ f \in lastPosition[v] => view'[<<v, f>>] = "Enter"
                        /\ view'[<<v, f>>] = "Enter" =>
                               f \in lastPosition[v] \/ <<v, f>> \in forgotten'
      BY <1>1 DEF ConsumersAgree
    <2>1. CASE <<v, f>> = e.place
      <3>1. view' = [view EXCEPT ![e.place] = e.type]
        BY <1>2, <2>1
      <3>2. view'[<<v, f>>] = e.type
        BY <1>3, <1>4, <2>1, <3>1
      <3> QED
        BY <1>8, <2>1, <3>2
    <2>2. CASE <<v, f>> # e.place
      <3>1. <<v, f>> \notin doubtful
        BY <1>2, <2>2
      <3>2. <<v, f>> \notin Pending
        BY <1>1, <2>2 DEF Pending
      <3>3. <<v, f>> \in Places
        BY DEF Places
      <3>4. view'[<<v, f>>] = view[<<v, f>>]
        BY <1>2, <1>4, <2>2, <3>3
      <3>5. <<v, f>> \in forgotten => <<v, f>> \in forgotten'
        BY <1>2, <2>2
      <3> QED
        BY <3>1, <3>2, <3>4, <3>5 DEF FenceInv, ConsumersAgree
    <2> QED
      BY <2>1, <2>2
  <1> QED
    BY <1>6, <1>7, <1>9, <1>10 DEF FenceInv

LEMMA RestartStep ==
    ASSUME FenceInv, Restart
    PROVE  FenceInv'
  <1>1. /\ vehicleGeofences' = [v \in Vehicles |-> {}]
        /\ vehiclesInside' = [f \in Fences |-> {}]
        /\ outbox' = {}
        /\ doubtful' = doubtful \union Pending
        /\ forgotten' = forgotten \union {p \in Places : p[2] \in vehicleGeofences[p[1]]}
        /\ UNCHANGED <<lastPosition, view>>
    BY DEF Restart
  <1>2. Pending \subseteq Places
    BY EventFacts DEF Pending
  <1>3. FenceTypeOK'
    BY <1>1, <1>2 DEF FenceInv, FenceTypeOK
  <1>4. Mirrored' /\ Telling'
    BY <1>1 DEF Mirrored, Telling
  <1>5. \A v \in Vehicles, f \in Fences :
            /\ <<v, f>> \notin doubtful' => <<v, f>> \notin doubtful \union Pending
            /\ <<v, f>> \in forgotten \/ f \in vehicleGeofences[v] => <<v, f>> \in forgotten'
    BY <1>1 DEF Places
  <1>6. Known'
    BY <1>1, <1>5 DEF FenceInv, Known
  <1>7. ConsumersAgree'
    BY <1>1, <1>5 DEF FenceInv, ConsumersAgree
  <1> QED
    BY <1>3, <1>4, <1>6, <1>7 DEF FenceInv

LEMMA FenceNextInv == FenceInv /\ [FenceNext]_fenceVars => FenceInv'
  <1> SUFFICES ASSUME FenceInv, [FenceNext]_fenceVars
               PROVE  FenceInv'
    OBVIOUS
  <1>1. CASE \E v \in Vehicles, S \in SUBSET Fences : CheckPosition(v, S)
    BY <1>1, CheckPositionStep
  <1>2. CASE \E e \in outbox : PublishEvent(e) \/ PublishFails(e)
    BY <1>2, PublishStep
  <1>3. CASE Restart
    BY <1>3, RestartStep
  <1>4. CASE UNCHANGED fenceVars
    BY <1>4 DEF fenceVars, FenceInv, FenceTypeOK, Mirrored, Known, Telling, ConsumersAgree, Pending
  <1> QED
    BY <1>1, <1>2, <1>3, <1>4 DEF FenceNext

---------------------------------------------------------------------------
(* The theorems                                                            *)

LEMMA FenceInvariant == FenceSpec => []FenceInv
  BY FenceInitInv, FenceNextInv, PTL DEF FenceSpec

\* Every variable keeps its type.
THEOREM FenceTypeCorrect == FenceSpec => []FenceTypeOK
  BY FenceInvariant, PTL DEF FenceInv

\* The detector's two maps say the same, between any two positions and after
\* a restart.
THEOREM MapsMirrored == FenceSpec => []Mirrored
  BY FenceInvariant, PTL DEF FenceInv

\* A consumer of the geofence topic knows where every vehicle is, but for the
\* places of which an event was lost, and those a restart forgot, where it may
\* only miss an exit; the next event published for such a place heals it.
THEOREM ConsumersKnow == FenceSpec => []ConsumersAgree
  BY FenceInvariant, PTL DEF FenceInv
=============================================================================
