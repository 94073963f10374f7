---------------------------- MODULE Replication ----------------------------
(***************************************************************************)
(* replication-service: the consumer of chunk.uploaded events and the      *)
(* self-healing sweeps, working concurrently on the tables storage_nodes   *)
(* and chunk_replicas and on the node buckets.                             *)
(*                                                                         *)
(* Every await in the code is a point where another worker may run, so     *)
(* each query and each object copy is one action; the code between two     *)
(* awaits belongs to the action before it.  The consumer handles one       *)
(* message at a time (prefetch 1).  setInterval starts a sweep whether or  *)
(* not the previous one has ended, hence a set Sweeps of sweeps that may   *)
(* overlap.                                                                *)
(*                                                                         *)
(* Not covered: the staleness arithmetic that makes a node unhealthy (see  *)
(* NodeHealth; here any node may fail and return), the read-only HTTP      *)
(* routes, and a broker connection that closes without the process ending. *)
(***************************************************************************)
EXTENDS Integers, FiniteSets, Sequences, Functions, FiniteSetsExt

CONSTANTS
    Nodes,              \* rows of storage_nodes
    Chunks,             \* chunk ids registered by metadata-service
    Events,             \* chunk.uploaded messages, one per registered version
    Batch,              \* Batch[e]: the chunks that event e lists, in order
    SizeBytes,          \* SizeBytes[c]: the size of chunk c
    StorageKey,         \* StorageKey[c]: its content hash, the object's name in a bucket
    Consumer,           \* the queue consumer
    Sweeps,             \* self-healing sweeps that may be running at once
    ReplicationFactor,
    MaxFaults           \* bound: failed calls, lost publishes, crashes, node failures

Workers == {Consumer} \union Sweeps
Keys == {StorageKey[c] : c \in Chunks}

\* The schema of a registration demands one chunk at least, of a positive size.
ASSUME FiniteAssumption  == IsFiniteSet(Nodes) /\ IsFiniteSet(Chunks)
ASSUME BatchAssumption   == Batch \in [Events -> Seq(Chunks) \ {<<>>}]
ASSUME SizeAssumption    == SizeBytes \in [Chunks -> Nat \ {0}]
ASSUME WorkerAssumption  == Consumer \notin Sweeps
ASSUME BoundAssumption   == ReplicationFactor \in Nat \ {0} /\ MaxFaults \in Nat

\* A chunk id belongs to one version, hence to one place of one event.
ASSUME ChunkAssumption ==
    \A e1, e2 \in Events : \A i \in 1..Len(Batch[e1]), j \in 1..Len(Batch[e2]) :
        Batch[e1][i] = Batch[e2][j] => e1 = e2 /\ i = j

VARIABLES
    isHealthy,          \* storage_nodes.is_healthy
    usedBytes,          \* storage_nodes.used_bytes
    bucket,             \* the keys of the objects in the node's bucket
    replica,            \* chunk_replicas.status of (chunk, node); "none": no row
    event,              \* where each message is
    pc,                 \* the next await of each worker
    todo,               \* chunks a worker has still to replicate, and how often
    exclude,            \* healChunk's excludeNodeIds
    targets,            \* copyToTargets: the nodes not yet tried
    stored,             \* copyToTargets: results.length > 0
    suspects,           \* sweep: the unhealthy nodes it read
    atRisk,             \* sweep: the replicas it has still to mark lost
    faults              \* faults so far

tables == <<isHealthy, usedBytes, replica>>
copying == <<exclude, targets, stored>>
marking == <<suspects, atRisk>>
vars == <<isHealthy, usedBytes, bucket, replica, event, pc, todo, exclude,
          targets, stored, suspects, atRisk, faults>>

Statuses == {"none", "synced", "lost"}
EventStates == {"unpublished", "unsent", "ready", "unacked", "acked", "dropped"}
Jobs == [chunk : Chunks, needed : 1..ReplicationFactor]

----------------------------------------------------------------------------
(* Queries.                                                                *)

Synced(c) == {n \in Nodes : replica[c][n] = "synced"}
HasRow(c) == {n \in Nodes : replica[c][n] # "none"}
Tracked(c) == HasRow(c) # {}

\* listHealthy minus the excluded nodes, in ascending order of used_bytes (ties
\* in any order), cut to k nodes.
LeastUsed(candidates, k) ==
    {q \in UNION {[1..m -> candidates] : m \in 0..k} :
        /\ IsInjective(q)
        /\ Len(q) = k \/ Range(q) = candidates
        /\ \A i \in DOMAIN q :
            /\ \A j \in DOMAIN q : i < j => usedBytes[q[i]] <= usedBytes[q[j]]
            /\ \A n \in candidates \ Range(q) : usedBytes[q[i]] <= usedBytes[n]}

\* Rows with no ORDER BY: any order.
Listings(S) == {q \in [1..Cardinality(S) -> S] : Range(q) = S}

\* Slips: < taken for <=; < factor - 1.
FullOnesTooBug ==
    {c \in Chunks : Tracked(c) /\ Cardinality(Synced(c)) <= ReplicationFactor}
OneMissingBug ==
    {c \in Chunks : Tracked(c) /\ Cardinality(Synced(c)) < ReplicationFactor - 1}

\* A chunk with no row at all is in no group of the GROUP BY.
UnderReplicated ==
    {c \in Chunks : Tracked(c) /\ Cardinality(Synced(c)) < ReplicationFactor}

Eligible(w) == {n \in Nodes : isHealthy[n]} \ exclude[w]

----------------------------------------------------------------------------
(* Initial state: the nodes seeded by the migration, nothing uploaded.     *)

Init ==
    /\ isHealthy = [n \in Nodes |-> TRUE]
    /\ usedBytes = [n \in Nodes |-> 0]
    /\ bucket = [n \in Nodes |-> {}]
    /\ replica = [c \in Chunks |-> [n \in Nodes |-> "none"]]
    /\ event = [e \in Events |-> "unpublished"]
    /\ pc = [w \in Workers |-> "idle"]
    /\ todo = [w \in Workers |-> <<>>]
    /\ exclude = [w \in Workers |-> {}]
    /\ targets = [w \in Workers |-> <<>>]
    /\ stored = [w \in Workers |-> FALSE]
    /\ suspects = [s \in Sweeps |-> {}]
    /\ atRisk = [s \in Sweeps |-> {}]
    /\ faults = 0

Fault == faults < MaxFaults /\ faults' = faults + 1
Goto(w, label) == pc' = [pc EXCEPT ![w] = label]
SettleEvent(outcome) ==
    event' = [e \in Events |-> IF event[e] = "unacked" THEN outcome ELSE event[e]]

----------------------------------------------------------------------------
(* The message: published once, without confirmation, after the version is *)
(* registered; delivered to the consumer's own durable queue.              *)

Publish(e) ==
    /\ event[e] = "unpublished"
    /\ event' = [event EXCEPT ![e] = "ready"]
    /\ UNCHANGED <<tables, bucket, pc, todo, copying, marking, faults>>

\* The publisher logs the error and the upload succeeds all the same.
PublishFails(e) ==
    /\ event[e] = "unpublished"
    /\ Fault
    /\ event' = [event EXCEPT ![e] = "unsent"]
    /\ UNCHANGED <<tables, bucket, pc, todo, copying, marking>>

Deliver(e) ==
    /\ pc[Consumer] = "idle"
    /\ event[e] = "ready"
    /\ event' = [event EXCEPT ![e] = "unacked"]
    /\ todo' = [todo EXCEPT ![Consumer] =
                  [i \in DOMAIN Batch[e] |->
                      [chunk |-> Batch[e][i], needed |-> ReplicationFactor]]]
    /\ Goto(Consumer, "pick")
    /\ UNCHANGED <<tables, bucket, copying, marking, faults>>

----------------------------------------------------------------------------
(* A worker's current chunk is the head of its todo.                       *)

\* The current chunk is done: go on to the next one, or end.  The consumer's end
\* acknowledges the message.
Conclude(w) ==
    LET rest == Tail(todo[w]) IN
    /\ todo' = [todo EXCEPT ![w] = rest]
    /\ exclude' = [exclude EXCEPT ![w] = {}]
    /\ stored' = [stored EXCEPT ![w] = FALSE]
    /\ CASE rest # <<>> -> /\ Goto(w, IF w = Consumer THEN "pick" ELSE "rows")
                            /\ UNCHANGED event
         [] rest = <<>> /\ w = Consumer -> Goto(w, "idle") /\ SettleEvent("acked")
         [] OTHER -> Goto(w, "idle") /\ UNCHANGED event

\* Slip: the rejected promise is not caught, so the message is never settled.
NackBug ==
    /\ Goto(Consumer, "idle")
    /\ todo' = [todo EXCEPT ![Consumer] = <<>>]
    /\ UNCHANGED <<event, exclude, stored>>

\* replicateChunk threw: the handler's loop ends there, and the message is
\* rejected without requeueing.
Nack ==
    /\ SettleEvent("dropped")
    /\ Goto(Consumer, "idle")
    /\ todo' = [todo EXCEPT ![Consumer] = <<>>]
    /\ UNCHANGED <<exclude, stored>>

\* Slip: the consumer's loop catches the error, as the sweep's does.
GiveUpBug(w) == Conclude(w)

\* No copy of the current chunk was made: fatal to the consumer's batch, while
\* a sweep logs it and goes on.
GiveUp(w) == IF w = Consumer THEN Nack ELSE Conclude(w)

\* replicateChunk and healChunk: read the healthy nodes and choose the targets.
Pick(w) ==
    /\ pc[w] = "pick"
    /\ Eligible(w) # {}
    /\ \E q \in LeastUsed(Eligible(w), Head(todo[w]).needed) :
            targets' = [targets EXCEPT ![w] = q]
    /\ Goto(w, "copy")
    /\ UNCHANGED <<tables, bucket, event, todo, exclude, stored, marking, faults>>

\* There is no eligible node, or the query failed.
PickNothing(w) ==
    /\ pc[w] = "pick"
    /\ \/ Eligible(w) = {} /\ UNCHANGED faults
       \/ Fault
    /\ GiveUp(w)
    /\ UNCHANGED <<tables, bucket, targets, marking>>

----------------------------------------------------------------------------
(* copyToTargets: copy the object, count its bytes, record the replica.    *)

Current(w) == Head(todo[w]).chunk
Target(w) == Head(targets[w])

NextTarget(w) ==
    /\ targets' = [targets EXCEPT ![w] = Tail(@)]
    /\ Goto(w, IF Tail(targets[w]) = <<>> THEN "settle" ELSE "copy")

\* Slip: incrementUsedBytes forgotten.
CopyBug(w) ==
    /\ pc[w] = "copy"
    /\ bucket' = [bucket EXCEPT ![Target(w)] = @ \union {StorageKey[Current(w)]}]
    /\ Goto(w, "record")
    /\ UNCHANGED <<tables, event, todo, copying, marking, faults>>

Copy(w) ==
    /\ pc[w] = "copy"
    /\ bucket' = [bucket EXCEPT ![Target(w)] = @ \union {StorageKey[Current(w)]}]
    /\ Goto(w, "count")
    /\ UNCHANGED <<tables, event, todo, copying, marking, faults>>

Count(w) ==
    /\ pc[w] = "count"
    /\ usedBytes' = [usedBytes EXCEPT ![Target(w)] = @ + SizeBytes[Current(w)]]
    /\ Goto(w, "record")
    /\ UNCHANGED <<isHealthy, replica, bucket, event, todo, copying, marking, faults>>

\* The upsert sets the status whatever it was.  When only its reply is lost, the
\* row is there and the node counts as failed.
Record(w) ==
    /\ pc[w] = "record"
    /\ replica' = [replica EXCEPT ![Current(w)][Target(w)] = "synced"]
    /\ \/ stored' = [stored EXCEPT ![w] = TRUE] /\ UNCHANGED faults
       \/ Fault /\ UNCHANGED stored
    /\ NextTarget(w)
    /\ UNCHANGED <<isHealthy, usedBytes, bucket, event, todo, exclude, marking>>

\* Slip: each call has a catch of its own, so a failed copy is recorded.
TargetFailsBug(w) ==
    /\ pc[w] \in {"copy", "count"}
    /\ Fault
    /\ Goto(w, IF pc[w] = "copy" THEN "count" ELSE "record")
    /\ UNCHANGED <<tables, bucket, event, todo, copying, marking>>

\* One of the three calls throws: the node is given up, the others go on.
TargetFails(w) ==
    /\ pc[w] \in {"copy", "count", "record"}
    /\ Fault
    /\ NextTarget(w)
    /\ UNCHANGED <<tables, bucket, event, todo, exclude, stored, marking>>

\* Slip: the check for an empty list of results is missing.
SettleBug(w) ==
    /\ pc[w] = "settle"
    /\ Conclude(w)
    /\ UNCHANGED <<tables, bucket, targets, marking, faults>>

Settle(w) ==
    /\ pc[w] = "settle"
    /\ IF stored[w] THEN Conclude(w) ELSE GiveUp(w)
    /\ UNCHANGED <<tables, bucket, targets, marking, faults>>

----------------------------------------------------------------------------
(* SelfHealingService.healOnce.                                            *)

\* Slip: the marking pass is skipped as soon as some node is healthy.
SweepStartsBug(s) ==
    /\ pc[s] = "idle"
    /\ suspects' = [suspects EXCEPT ![s] = {n \in Nodes : ~isHealthy[n]}]
    /\ Goto(s, IF \E n \in Nodes : isHealthy[n] THEN "scan" ELSE "atRisk")
    /\ UNCHANGED <<tables, bucket, event, todo, copying, atRisk, faults>>

\* The timer fires; listAll.  With every node healthy there is nothing to mark.
SweepStarts(s) ==
    /\ pc[s] = "idle"
    /\ suspects' = [suspects EXCEPT ![s] = {n \in Nodes : ~isHealthy[n]}]
    /\ Goto(s, IF \A n \in Nodes : isHealthy[n] THEN "scan" ELSE "atRisk")
    /\ UNCHANGED <<tables, bucket, event, todo, copying, atRisk, faults>>

ListAtRisk(s) ==
    LET found == {r \in Chunks \X suspects[s] : replica[r[1]][r[2]] = "synced"} IN
    /\ pc[s] = "atRisk"
    /\ atRisk' = [atRisk EXCEPT ![s] = found]
    /\ suspects' = [suspects EXCEPT ![s] = {}]
    /\ Goto(s, IF found = {} THEN "scan" ELSE "mark")
    /\ UNCHANGED <<tables, bucket, event, todo, copying, faults>>

MarkLost(s) ==
    /\ pc[s] = "mark"
    /\ \E r \in atRisk[s] :
        /\ replica' = [replica EXCEPT ![r[1]][r[2]] = "lost"]
        /\ atRisk' = [atRisk EXCEPT ![s] = @ \ {r}]
        /\ Goto(s, IF atRisk[s] = {r} THEN "scan" ELSE "mark")
    /\ UNCHANGED <<isHealthy, usedBytes, bucket, event, todo, copying, suspects, faults>>

\* listUnderReplicated: read once for the whole sweep, counts included.
ListUnderReplicated(s) ==
    /\ pc[s] = "scan"
    /\ \E q \in Listings(UnderReplicated) :
        /\ todo' = [todo EXCEPT ![s] = [i \in DOMAIN q |->
              [chunk |-> q[i],
               needed |-> ReplicationFactor - Cardinality(Synced(q[i]))]]]
        /\ Goto(s, IF q = <<>> THEN "idle" ELSE "rows")
    /\ UNCHANGED <<tables, bucket, event, copying, marking, faults>>

\* Slip: no node is excluded.
ListRowsBug(s) ==
    /\ pc[s] = "rows"
    /\ exclude' = [exclude EXCEPT ![s] = {}]
    /\ Goto(s, "pick")
    /\ UNCHANGED <<tables, bucket, event, todo, targets, stored, marking, faults>>

\* Nodes with a row for the chunk are excluded, whatever the row's status.
ListRows(s) ==
    /\ pc[s] = "rows"
    /\ exclude' = [exclude EXCEPT ![s] = HasRow(Current(s))]
    /\ Goto(s, "pick")
    /\ UNCHANGED <<tables, bucket, event, todo, targets, stored, marking, faults>>

\* A query outside the try of the loop throws: the whole sweep ends.
SweepFails(s) ==
    /\ pc[s] \in {"atRisk", "mark", "scan", "rows"}
    /\ Fault
    /\ Goto(s, "idle")
    /\ todo' = [todo EXCEPT ![s] = <<>>]
    /\ suspects' = [suspects EXCEPT ![s] = {}]
    /\ atRisk' = [atRisk EXCEPT ![s] = {}]
    /\ UNCHANGED <<tables, bucket, event, copying>>

----------------------------------------------------------------------------
(* The environment: nodes go and come back as NodeHealth records it, and   *)
(* the process may crash, which returns the unacknowledged message.        *)

NodeFails(n) ==
    /\ isHealthy[n]
    /\ Fault
    /\ isHealthy' = [isHealthy EXCEPT ![n] = FALSE]
    /\ UNCHANGED <<usedBytes, replica, bucket, event, pc, todo, copying, marking>>

NodeReturns(n) ==
    /\ ~isHealthy[n]
    /\ isHealthy' = [isHealthy EXCEPT ![n] = TRUE]
    /\ UNCHANGED <<usedBytes, replica, bucket, event, pc, todo, copying, marking, faults>>

Halt ==
    /\ Fault
    /\ pc' = [w \in Workers |-> "idle"]
    /\ todo' = [w \in Workers |-> <<>>]
    /\ exclude' = [w \in Workers |-> {}]
    /\ targets' = [w \in Workers |-> <<>>]
    /\ stored' = [w \in Workers |-> FALSE]
    /\ suspects' = [s \in Sweeps |-> {}]
    /\ atRisk' = [s \in Sweeps |-> {}]
    /\ UNCHANGED <<tables, bucket>>

Crash == Halt /\ SettleEvent("ready")

----------------------------------------------------------------------------
CopyStep(w) == Pick(w) \/ PickNothing(w) \/ Copy(w) \/ Count(w) \/ Record(w)
               \/ TargetFails(w) \/ Settle(w)
SweepStep(s) == SweepStarts(s) \/ ListAtRisk(s) \/ MarkLost(s)
                \/ ListUnderReplicated(s) \/ ListRows(s) \/ SweepFails(s)

Next ==
    \/ \E e \in Events : Publish(e) \/ PublishFails(e) \/ Deliver(e)
    \/ \E w \in Workers : CopyStep(w)
    \/ \E s \in Sweeps : SweepStep(s)
    \/ \E n \in Nodes : NodeFails(n) \/ NodeReturns(n)
    \/ Crash

Spec == Init /\ [][Next]_vars

\* A query that does not fail is answered, a sweep's timer fires again, and a
\* ready message is delivered.  Nothing is assumed of the environment.
WorkerGoesOn(w) ==
    \/ Pick(w) \/ (Eligible(w) = {} /\ PickNothing(w)) \/ Copy(w) \/ Count(w)
    \/ Record(w) \/ Settle(w)
SweepGoesOn(s) ==
    \/ WorkerGoesOn(s) \/ SweepStarts(s) \/ ListAtRisk(s) \/ MarkLost(s)
    \/ ListUnderReplicated(s) \/ ListRows(s)
ConsumerGoesOn == WorkerGoesOn(Consumer) \/ \E e \in Events : Deliver(e)

FairSpec ==
    /\ Spec
    /\ WF_vars(ConsumerGoesOn)
    /\ \A s \in Sweeps : WF_vars(SweepGoesOn(s))

\* Moreover every node that fails comes back, and uploads are published or not.
ReturningSpec ==
    /\ FairSpec
    /\ \A n \in Nodes : WF_vars(NodeReturns(n))
    /\ \A e \in Events : WF_vars(Publish(e))

----------------------------------------------------------------------------
(* Invariants.                                                             *)

\* Every variable has its type, and statuses the schema allows but no code
\* writes ('pending', 'degraded') never appear.
TypeOK ==
    /\ isHealthy \in [Nodes -> BOOLEAN]
    /\ usedBytes \in [Nodes -> Nat]
    /\ bucket \in [Nodes -> SUBSET Keys]
    /\ replica \in [Chunks -> [Nodes -> Statuses]]
    /\ event \in [Events -> EventStates]
    /\ pc \in [Workers -> {"idle", "pick", "copy", "count", "record", "settle",
                            "atRisk", "mark", "scan", "rows"}]
    /\ todo \in [Workers -> Seq(Jobs)]
    /\ exclude \in [Workers -> SUBSET Nodes]
    /\ targets \in [Workers -> Seq(Nodes)]
    /\ stored \in [Workers -> BOOLEAN]
    /\ suspects \in [Sweeps -> SUBSET Nodes]
    /\ atRisk \in [Sweeps -> SUBSET (Chunks \X Nodes)]
    /\ faults \in 0..MaxFaults

\* A replica row, synced or lost, never exists without the chunk's bytes in that
\* node's bucket, whatever crashed or failed between the copy and the upsert.
RowIsStored ==
    \A c \in Chunks : \A n \in HasRow(c) : StorageKey[c] \in bucket[n]

\* An acknowledged message left at least one replica row for each of its chunks:
\* the acknowledgement never hides a chunk from self-healing.
AckedIsTracked ==
    \A e \in Events : event[e] = "acked" => \A i \in DOMAIN Batch[e] : Tracked(Batch[e][i])

\* The chunks of a message that have a row are the first ones of its batch, through
\* crashes, redeliveries and rejections, with sweeps working on the same chunks.
TrackedInOrder ==
    \A e \in Events : \A i, j \in DOMAIN Batch[e] :
        i < j /\ Tracked(Batch[e][j]) => Tracked(Batch[e][i])

\* used_bytes never falls below the bytes of the replicas recorded on the node:
\* the ranking by free space may overrate a node's load, never underrate it.
BytesOf(S) == MapThenSumSet(LAMBDA c : SizeBytes[c], S)
UsedBytesCoverReplicas ==
    \A n \in Nodes : usedBytes[n] >= BytesOf({c \in Chunks : n \in HasRow(c)})

\* Nor does it drift without end: each worker counts a chunk's bytes on a node once, and
\* once more for each fault.  Sweeps overlap, work with stale counts and try again and again
\* where the factor cannot be restored, yet none copies to a node it knows to have a row.
UsedBytesAreBounded ==
    \A n \in Nodes :
        usedBytes[n] <= (1 + faults) * Cardinality(Workers)
                            * BytesOf({c \in Chunks : StorageKey[c] \in bucket[n]})

----------------------------------------------------------------------------
(* Steps and liveness.                                                     *)

Ledger == INSTANCE ReplicaLedger

\* The service keeps the promise of ReplicaLedger, step by step.
KeepsLedger == Ledger!Spec

\* Once faults end, every tracked chunk is and stays at the replication factor,
\* unless each healthy node already has a row for it: sweeps converge although
\* they overlap, use stale counts and race with the consumer.
Healed(c) ==
    \/ Cardinality(Synced(c)) >= ReplicationFactor
    \/ {n \in Nodes : isHealthy[n]} \subseteq HasRow(c)
SweepsConverge == <>[](\A c \in Chunks : Tracked(c) => Healed(c))

\* Once faults end, no replica counts as synced on an unhealthy node, the ones
\* written by a worker that chose the node while it was healthy included.
DeadReplicasRetired ==
    <>[](\A c \in Chunks : \A n \in Synced(c) : isHealthy[n])

\* A message in the queue is eventually acknowledged or rejected, through crashes.
EventsSettle ==
    \A e \in Events : event[e] = "ready" ~> event[e] \in {"acked", "dropped"}

\* What the design claims: once enough nodes are back, a tracked chunk regains its
\* replication factor.
HealsOnceNodesReturn ==
    \A c \in Chunks : Tracked(c) ~> Cardinality(Synced(c)) >= ReplicationFactor

\* What the design claims: the chunks of an event that could not be published are
\* replicated all the same.
HealsUnsentEvents ==
    \A e \in Events : event[e] = "unsent" ~> \A i \in DOMAIN Batch[e] : Tracked(Batch[e][i])
============================================================================
