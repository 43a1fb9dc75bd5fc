--------------------------- MODULE OfflineQueue ---------------------------
(***************************************************************************)
(* The offline mutation queue of the mobile app (mobile/lib/offlineSync.ts *)
(* and the hooks of useOfflineQuery.ts).  The queue is one value in        *)
(* AsyncStorage: enqueueing reads it and writes it back, two awaits apart, *)
(* and a sync reads it, replays what it read one request after another,    *)
(* and writes back what failed.  The operating system may kill the app     *)
(* between any two of these steps.                                         *)
(***************************************************************************)
EXTENDS Integers, Sequences, FiniteSets, SequencesExt

CONSTANTS MaxMutations,  \* bound on the mutations of a behaviour
          MaxQueue,      \* MAX_QUEUE_SIZE
          MaxApplied,    \* bound on how often a mutation is sent in a behaviour
          Nothing

Mutations == 1..MaxMutations   \* numbered in the order in which they are made

ASSUME QueueAssumption ==
    /\ MaxMutations \in Nat
    /\ MaxApplied \in Nat \ {0}
    /\ MaxQueue \in Nat \ {0}
    /\ Nothing \notin Seq(Mutations)

VARIABLES online,      \* what NetInfo reports
          issued,      \* the mutations made so far
          stored,      \* the value of QUEUE_KEY
          enqueuing,   \* per mutation: the queue its enqueueMutation has read
          syncing,     \* the mutations still to be replayed by the sync, Nothing without one
          remaining,   \* those its requests failed for
          applied,     \* per mutation: how often the server has carried it out
          accepted,    \* queued, and the caller told so
          evicted,     \* dropped at the cap
          exposed,     \* queued while a sync or another enqueue was at the queue
          repeatable   \* carried out, but the answer or the sync's record of it was
                       \* lost, or an enqueue put it back

storageVars == <<stored, enqueuing, exposed, accepted, evicted>>
syncVars    == <<syncing, remaining>>
queueVars   == <<online, issued, stored, enqueuing, syncing, remaining, applied, accepted,
                 evicted, exposed, repeatable>>

QueueTypeOK ==
    /\ online \in BOOLEAN
    /\ issued \in 0..MaxMutations
    /\ stored \in Seq(Mutations)
    /\ enqueuing \in [Mutations -> Seq(Mutations) \union {Nothing}]
    /\ syncing \in Seq(Mutations) \union {Nothing}
    /\ remaining \in Seq(Mutations)
    /\ applied \in [Mutations -> 0..MaxApplied]
    /\ accepted \subseteq Mutations /\ evicted \subseteq Mutations
    /\ exposed \subseteq Mutations /\ repeatable \subseteq Mutations

QueueInit ==
    /\ online \in BOOLEAN
    /\ issued = 0
    /\ stored = <<>>
    /\ enqueuing = [m \in Mutations |-> Nothing]
    /\ syncing = Nothing
    /\ remaining = <<>>
    /\ applied = [m \in Mutations |-> 0]
    /\ accepted = {} /\ evicted = {}
    /\ exposed = {} /\ repeatable = {}

Enqueuing == {m \in Mutations : enqueuing[m] # Nothing}
IsSyncing == syncing # Nothing

\* The splice of enqueueMutation: the newest MaxQueue - 1 of a full queue.
Spliced(q) ==
    IF Len(q) >= MaxQueue THEN SubSeq(q, Len(q) - MaxQueue + 2, Len(q)) ELSE q

---------------------------------------------------------------------------
(* useOfflineMutation                                                      *)

\* Offline: enqueueMutation reads the queue.
EnqueueRead ==
    /\ ~online
    /\ issued < MaxMutations
    /\ issued' = issued + 1
    /\ enqueuing' = [enqueuing EXCEPT ![issued + 1] = stored]
    /\ UNCHANGED <<online, stored, syncVars, applied, accepted, evicted, exposed, repeatable>>

\* ... and writes it back, the mutation at its end, with what was carried out
\* and taken off the queue in between; whoever else has read the queue by now
\* will write it back without the mutation.
EnqueueWrite(m) ==
    /\ m \in Enqueuing
    /\ stored' = Append(Spliced(enqueuing[m]), m)
    /\ evicted' = evicted \union (ToSet(enqueuing[m]) \ ToSet(Spliced(enqueuing[m])))
    /\ accepted' = accepted \union {m}
    /\ enqueuing' = [enqueuing EXCEPT ![m] = Nothing]
    /\ exposed' = IF IsSyncing \/ Enqueuing # {m} THEN exposed \union {m} ELSE exposed
    /\ repeatable' = repeatable \union
           {k \in ToSet(Spliced(enqueuing[m])) \ ToSet(stored) : applied[k] > 0}
    /\ UNCHANGED <<online, issued, syncVars, applied>>

\* Online: the request is sent at once, and is not queued when it fails.
MutateOnline ==
    /\ online
    /\ issued < MaxMutations
    /\ issued' = issued + 1
    /\ applied' \in {applied, [applied EXCEPT ![issued + 1] = 1]}
    /\ UNCHANGED <<online, storageVars, syncVars, repeatable>>

---------------------------------------------------------------------------
(* syncOfflineQueue                                                        *)

\* The NetInfo listener hears of a connection: unless that is known not to
\* reach the internet, a sync reads the queue; it does not when one is under
\* way, and returns at once when the queue is empty.
NetInfoConnected(reachable) ==
    /\ online' = TRUE
    /\ IF ~reachable \/ IsSyncing \/ stored = <<>>
       THEN UNCHANGED syncing
       ELSE syncing' = stored
    /\ UNCHANGED <<issued, storageVars, remaining, applied, repeatable>>

NetInfoDisconnected ==
    /\ online
    /\ online' = FALSE
    /\ UNCHANGED <<issued, storageVars, syncVars, applied, repeatable>>

\* Mutant: what was carried out is kept as well.
ReplayedAndKept ==
    /\ IsSyncing /\ syncing # <<>>
    /\ applied[Head(syncing)] < MaxApplied
    /\ applied' = [applied EXCEPT ![Head(syncing)] = @ + 1]
    /\ remaining' = Append(remaining, Head(syncing))
    /\ syncing' = Tail(syncing)
    /\ UNCHANGED <<online, issued, storageVars, repeatable>>

\* The next request of the sync succeeds.
Replayed ==
    /\ IsSyncing /\ syncing # <<>>
    /\ applied[Head(syncing)] < MaxApplied
    /\ applied' = [applied EXCEPT ![Head(syncing)] = @ + 1]
    /\ syncing' = Tail(syncing)
    /\ UNCHANGED <<online, issued, storageVars, remaining, repeatable>>

\* Mutant: a failed mutation is not kept.
ReplayDropped(lost) ==
    /\ IsSyncing /\ syncing # <<>>
    /\ LET m == Head(syncing)
       IN  /\ lost => applied[m] < MaxApplied
           /\ applied' = IF lost THEN [applied EXCEPT ![m] = @ + 1] ELSE applied
           /\ repeatable' = IF lost THEN repeatable \union {m} ELSE repeatable
    /\ syncing' = Tail(syncing)
    /\ UNCHANGED <<online, issued, storageVars, remaining>>

\* Mutant: a failed mutation is tried again at once.
ReplayAgain(lost) ==
    /\ IsSyncing /\ syncing # <<>>
    /\ LET m == Head(syncing)
       IN  /\ lost => applied[m] < MaxApplied
           /\ applied' = IF lost THEN [applied EXCEPT ![m] = @ + 1] ELSE applied
           /\ repeatable' = IF lost THEN repeatable \union {m} ELSE repeatable
    /\ UNCHANGED <<online, issued, storageVars, syncVars>>

\* It fails: refused, or never arrived, or (lost) carried out without the
\* answer getting back within the 15 s.
ReplayFailed(lost) ==
    /\ IsSyncing /\ syncing # <<>>
    /\ LET m == Head(syncing)
       IN  /\ lost => applied[m] < MaxApplied
           /\ applied' = IF lost THEN [applied EXCEPT ![m] = @ + 1] ELSE applied
           /\ repeatable' = IF lost THEN repeatable \union {m} ELSE repeatable
           /\ remaining' = Append(remaining, m)
    /\ syncing' = Tail(syncing)
    /\ UNCHANGED <<online, issued, storageVars>>

\* Mutant: the key is removed when nothing failed, and read without a default.
SyncDoneRemovesKey ==
    /\ syncing = <<>>
    /\ stored' = IF remaining = <<>> THEN Nothing ELSE remaining
    /\ syncing' = Nothing
    /\ remaining' = <<>>
    /\ UNCHANGED <<online, issued, enqueuing, applied, accepted, evicted, exposed, repeatable>>

\* Mutant: what failed is appended to what is stored.
SyncDoneAppends ==
    /\ syncing = <<>>
    /\ stored' = stored \o remaining
    /\ syncing' = Nothing
    /\ remaining' = <<>>
    /\ UNCHANGED <<online, issued, enqueuing, applied, accepted, evicted, exposed, repeatable>>

\* What failed is written back.
SyncDone ==
    /\ syncing = <<>>
    /\ stored' = remaining
    /\ syncing' = Nothing
    /\ remaining' = <<>>
    /\ UNCHANGED <<online, issued, enqueuing, applied, accepted, evicted, exposed, repeatable>>

\* The app is killed and started again: what the sync has replayed so far is
\* still in the queue.
Kill ==
    /\ enqueuing' = [m \in Mutations |-> Nothing]
    /\ syncing' = Nothing
    /\ remaining' = <<>>
    /\ repeatable' = IF IsSyncing
                     THEN repeatable \union (ToSet(stored) \ ToSet(remaining \o syncing))
                     ELSE repeatable
    /\ UNCHANGED <<online, issued, stored, applied, accepted, evicted, exposed>>

QueueNext ==
    \/ EnqueueRead
    \/ \E m \in Mutations : EnqueueWrite(m)
    \/ MutateOnline
    \/ \E reachable \in BOOLEAN : NetInfoConnected(reachable)
    \/ NetInfoDisconnected
    \/ Replayed
    \/ \E lost \in BOOLEAN : ReplayFailed(lost)
    \/ SyncDone
    \/ Kill

\* Every request of a sync ends, by its own timeout at the latest, and every
\* write of the storage does; nothing else has to happen.
QueueFairness ==
    /\ WF_queueVars(Replayed \/ \E lost \in BOOLEAN : ReplayFailed(lost))
    /\ WF_queueVars(SyncDone)
    /\ \A m \in Mutations : WF_queueVars(EnqueueWrite(m))

QueueSpec == QueueInit /\ [][QueueNext]_queueVars /\ QueueFairness

---------------------------------------------------------------------------
(* Properties                                                              *)

\* Whatever reads and writes overlap, the stored queue is in the order in
\* which the mutations were made, holds none twice and respects the cap.
StoredInOrder ==
    /\ \A i, j \in DOMAIN stored : i < j => stored[i] < stored[j]
    /\ Len(stored) <= MaxQueue

\* A mutation the app has said is queued is in the storage, carried out or
\* dropped at the cap, whatever reads and writes overlap later and whether or
\* not the app was killed since.  Only one that was itself queued during a
\* sync, or beside another enqueue, may be overwritten.
NothingLost ==
    \A m \in accepted \ exposed :
        m \in ToSet(stored) \/ m \in evicted \/ applied[m] > 0

\* The server carries a mutation out twice only when an answer got lost, a
\* sync was killed behind it, or an overlapping enqueue put it back.
RepeatsExplained ==
    \A m \in Mutations : applied[m] > 1 => m \in repeatable

\* A sync comes to its end, so that the next connection can start one.
SyncEnds == IsSyncing ~> ~IsSyncing
============================================================================
