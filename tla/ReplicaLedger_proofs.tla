------------------------ MODULE ReplicaLedger_proofs ------------------------
(***************************************************************************)
(* Proofs about what Replication tracks: rows appear in the order of the   *)
(* message being handled, acknowledgements hide no chunk, the whole        *)
(* service implements ReplicaLedger, and used_bytes drifts within bounds.  *)
(* They build on the inductive invariant IInv of Replication_proofs.       *)
(***************************************************************************)
EXTENDS Replication_proofs

\* The consumer works on one message at a time.  Its todo is what is left of the batch,
\* and the chunks before that have replicas.
Handling(e) ==
    LET done == Len(Batch[e]) - Len(todo[Consumer]) IN
    /\ event[e] = "unacked"
    /\ \A f \in Events : event[f] = "unacked" => f = e
    /\ done >= 0
    /\ \A i \in 1..Len(todo[Consumer]) : todo[Consumer][i].chunk = Batch[e][done + i]
    /\ \A j \in 1..done : Tracked(Batch[e][j])

ConsumerInTurn ==
    IF pc[Consumer] = "idle"
    THEN \A e \in Events : event[e] # "unacked"
    ELSE /\ pc[Consumer] \in {"pick", "copy", "count", "record", "settle"}
         /\ \E e \in Events : Handling(e)

\* A worker that stored a copy has recorded it.
StoredIsTracked ==
    \A w \in Workers : stored[w] =>
        pc[w] \in {"copy", "count", "record", "settle"} /\ Tracked(Current(w))

\* What a sweep has left to heal has a row already.
SweepsKeepToTracked ==
    \A s \in Sweeps : \A i \in DOMAIN todo[s] : Tracked(todo[s][i].chunk)

\* What is left of a sweep, and what is acknowledged, has its rows: no row is ever removed.
TrackInv ==
    /\ ConsumerInTurn /\ StoredIsTracked
    /\ SweepsKeepToTracked /\ TrackedInOrder /\ AckedIsTracked

----------------------------------------------------------------------------
(* Lemmas about rows.                                                      *)

LEMMA TrackedRow ==
    ASSUME NEW c
    PROVE  /\ Tracked(c) <=> \E n \in Nodes : replica[c][n] # "none"
           /\ Tracked(c)' <=> \E n \in Nodes : replica'[c][n] # "none"
  BY DEF Tracked, HasRow

LEMMA SameRows == ASSUME UNCHANGED replica, NEW c PROVE Tracked(c)' = Tracked(c)
  BY DEF Tracked, HasRow

\* A step that leaves messages, rows, jobs and results alone, and no worker idle that
\* was busy, disturbs nothing that is tracked.
LEMMA FrameTrackInv ==
    ASSUME IInv, TrackInv, UNCHANGED <<event, replica, todo, stored>>,
           \/ pc'[Consumer] = pc[Consumer]
           \/ /\ pc[Consumer] # "idle"
              /\ pc'[Consumer] \in {"pick", "copy", "count", "record", "settle"},
           \A w \in Workers : stored[w] => pc'[w] \in {"copy", "count", "record", "settle"}
    PROVE  TrackInv'
<1> USE DEF TrackInv
<1>1. ConsumerInTurn'
  BY SameRows DEF ConsumerInTurn, Handling
<1>2. StoredIsTracked'
  BY SameRows DEF StoredIsTracked, Current
<1>3. SweepsKeepToTracked' /\ TrackedInOrder' /\ AckedIsTracked'
  BY SameRows DEF SweepsKeepToTracked, TrackedInOrder, AckedIsTracked
<1> QED
  BY <1>1, <1>2, <1>3

LEMMA ConsumerIsWorker == Consumer \in Workers /\ Sweeps \subseteq Workers
  BY DEF Workers

LEMMA InitTrackInv == Init => TrackInv
<1> SUFFICES ASSUME Init PROVE TrackInv
  OBVIOUS
<1>1. \A c \in Chunks : ~ Tracked(c)
  BY DEF Init, Tracked, HasRow
<1>2. \A e \in Events : Batch[e] \in Seq(Chunks)
  BY BatchAssumption
<1>3. \A e \in Events : \A i \in DOMAIN Batch[e] : Batch[e][i] \in Chunks
  BY <1>2
<1>4. ConsumerInTurn /\ StoredIsTracked
  BY ConsumerIsWorker DEF Init, ConsumerInTurn, StoredIsTracked
<1>5. SweepsKeepToTracked /\ TrackedInOrder /\ AckedIsTracked
  BY <1>1, <1>3, ConsumerIsWorker DEF Init, SweepsKeepToTracked, TrackedInOrder, AckedIsTracked
<1> QED
  BY <1>4, <1>5 DEF TrackInv

LEMMA PickTrackInv == ASSUME IInv, TrackInv, NEW w \in Workers, Pick(w) PROVE TrackInv'
  BY FrameTrackInv, ConsumerIsWorker DEF IInv, TypeOK, TrackInv, StoredIsTracked, Pick, Goto, tables, marking

LEMMA CopyTrackInv == ASSUME IInv, TrackInv, NEW w \in Workers, Copy(w) PROVE TrackInv'
  BY FrameTrackInv, ConsumerIsWorker DEF IInv, TypeOK, TrackInv, StoredIsTracked, Copy, Goto, tables, copying

LEMMA CountTrackInv == ASSUME IInv, TrackInv, NEW w \in Workers, Count(w) PROVE TrackInv'
  BY FrameTrackInv, ConsumerIsWorker DEF IInv, TypeOK, TrackInv, StoredIsTracked, Count, Goto, copying

LEMMA TargetFailsTrackInv ==
    ASSUME IInv, TrackInv, NEW w \in Workers, TargetFails(w) PROVE TrackInv'
  BY FrameTrackInv, ConsumerIsWorker DEF IInv, TypeOK, TrackInv, StoredIsTracked, TargetFails,
     NextTarget, Goto, tables

----------------------------------------------------------------------------
(* Ending a chunk.                                                         *)

\* What is left of a batch after the head of what is left.
LEMMA RestOfBatch ==
    ASSUME NEW b, NEW q \in Seq(Jobs), q # <<>>, Len(b) \in Nat, Len(q) <= Len(b),
           \A i \in 1..Len(q) : q[i].chunk = b[Len(b) - Len(q) + i]
    PROVE  /\ Len(Tail(q)) \in Nat /\ Len(Tail(q)) <= Len(b)
           /\ Head(q).chunk = b[Len(b) - Len(Tail(q))]
           /\ 1..(Len(b) - Len(Tail(q)))
                = (1..(Len(b) - Len(q))) \union {Len(b) - Len(Tail(q))}
           /\ \A i \in 1..Len(Tail(q)) : Tail(q)[i].chunk = b[Len(b) - Len(Tail(q)) + i]
<1>1. Len(q) \in Nat /\ Len(q) >= 1 /\ Len(Tail(q)) = Len(q) - 1 /\ Head(q) = q[1]
  OBVIOUS
<1>2. \A i \in 1..Len(Tail(q)) : Tail(q)[i] = q[i + 1]
  OBVIOUS
<1>3. Len(b) - Len(Tail(q)) = Len(b) - Len(q) + 1
  BY <1>1
<1>4. Head(q).chunk = b[Len(b) - Len(q) + 1]
  BY <1>1
<1>5. ASSUME NEW i \in 1..Len(Tail(q))
      PROVE  Tail(q)[i].chunk = b[Len(b) - Len(Tail(q)) + i]
  <2>1. i + 1 \in 1..Len(q) /\ Len(b) - Len(q) + (i + 1) = Len(b) - Len(Tail(q)) + i
    BY <1>1
  <2>2. q[i + 1].chunk = b[Len(b) - Len(q) + (i + 1)]
    BY <2>1
  <2> QED
    BY <1>2, <2>1, <2>2
<1>6. 1..(Len(b) - Len(Tail(q))) = (1..(Len(b) - Len(q))) \union {Len(b) - Len(Tail(q))}
  BY <1>1
<1> QED
  BY <1>1, <1>3, <1>4, <1>5, <1>6

LEMMA ConcludeConsumer ==
    ASSUME IInv, TrackInv, Conclude(Consumer), Tracked(Current(Consumer)),
           pc[Consumer] \in {"pick", "settle"}, UNCHANGED replica
    PROVE  ConsumerInTurn' /\ AckedIsTracked'
<1>1. PICK e \in Events : Handling(e)
  BY DEF TrackInv, ConsumerInTurn
<1> DEFINE q == todo[Consumer]
           b == Batch[e]
<1>2. q \in Seq(Jobs) /\ q # <<>> /\ todo'[Consumer] = Tail(q)
  BY ConsumerIsWorker DEF IInv, TypeOK, WorkersBusy, Conclude
<1>3. b \in Seq(Chunks) /\ Len(b) \in Nat /\ DOMAIN b = 1..Len(b)
  BY BatchAssumption
<1>4. /\ Len(b) - Len(q) >= 0
      /\ \A i \in 1..Len(q) : q[i].chunk = b[Len(b) - Len(q) + i]
      /\ \A j \in 1..(Len(b) - Len(q)) : Tracked(b[j])
  BY <1>1 DEF Handling
<1>5. Len(q) \in Nat
  BY <1>2
<1>6. Len(q) <= Len(b)
  BY <1>3, <1>4, <1>5
<1> HIDE DEF q, b
<1>7. /\ Len(Tail(q)) \in Nat /\ Len(Tail(q)) <= Len(b)
      /\ Head(q).chunk = b[Len(b) - Len(Tail(q))]
      /\ 1..(Len(b) - Len(Tail(q)))
           = (1..(Len(b) - Len(q))) \union {Len(b) - Len(Tail(q))}
      /\ \A i \in 1..Len(Tail(q)) : Tail(q)[i].chunk = b[Len(b) - Len(Tail(q)) + i]
  BY <1>2, <1>3, <1>4, <1>6, RestOfBatch
<1>8. \A j \in 1..(Len(b) - Len(Tail(q))) : Tracked(b[j])
  BY <1>4, <1>7 DEF q, Current
<1>9. CASE Tail(q) # <<>>
  <2>1. pc' = [pc EXCEPT ![Consumer] = "pick"] /\ UNCHANGED event
    BY <1>9 DEF Conclude, Goto, q
  <2>2. Len(b) - Len(Tail(q)) >= 0
    BY <1>3, <1>7
  <2>3. Handling(e)'
    BY <1>1, <1>2, <1>7, <1>8, <2>1, <2>2, SameRows DEF Handling, b
  <2>4. ConsumerInTurn'
    BY <2>1, <2>3, ConsumerIsWorker DEF ConsumerInTurn, IInv, TypeOK
  <2> QED
    BY <2>1, <2>4, SameRows DEF TrackInv, AckedIsTracked
<1>10. CASE Tail(q) = <<>>
  <2>1. pc' = [pc EXCEPT ![Consumer] = "idle"] /\ SettleEvent("acked")
    BY <1>10 DEF Conclude, Goto, q
  <2>2. ConsumerInTurn'
    BY <1>1, <2>1, ConsumerIsWorker DEF ConsumerInTurn, IInv, TypeOK, SettleEvent
  <2>3. \A i \in DOMAIN b : Tracked(b[i])
    <3>1. Len(<<>>) = 0
      OBVIOUS
    <3>2. 1..(Len(b) - Len(Tail(q))) = 1..(Len(b) - 0)
      BY <1>10, <3>1, Zenon
    <3> QED
      BY <1>3, <1>8, <3>2
  <2>4. AckedIsTracked'
    BY <1>1, <2>1, <2>3, SameRows DEF TrackInv, AckedIsTracked, SettleEvent, Handling, b
  <2> QED
    BY <2>2, <2>4
<1> QED
  BY <1>9, <1>10

LEMMA ConcludeTrackInv ==
    ASSUME IInv, TrackInv, NEW w \in Workers, Conclude(w), pc[w] \in {"pick", "settle"},
           w = Consumer => Tracked(Current(w)), UNCHANGED replica
    PROVE  TrackInv'
<1> USE DEF IInv, TrackInv
<1>1. TrackedInOrder'
  BY SameRows DEF TrackedInOrder
<1>2. StoredIsTracked'
  BY SameRows DEF TypeOK, Conclude, StoredIsTracked, Goto, Current
<1>3. SweepsKeepToTracked'
  <2>1. todo[w] \in Seq(Jobs) /\ todo[w] # <<>> /\ todo' = [todo EXCEPT ![w] = Tail(todo[w])]
    BY DEF TypeOK, WorkersBusy, Conclude
  <2>2. \A i \in DOMAIN Tail(todo[w]) : i + 1 \in DOMAIN todo[w] /\ Tail(todo[w])[i] = todo[w][i + 1]
    BY <2>1
  <2>3. \A s \in Sweeps : \A i \in DOMAIN todo'[s] : \E k \in DOMAIN todo[s] : todo'[s][i] = todo[s][k]
    BY <2>1, <2>2, ConsumerIsWorker DEF TypeOK
  <2> QED
    BY <2>3, SameRows DEF SweepsKeepToTracked
<1>4. CASE w = Consumer
  BY <1>1, <1>2, <1>3, <1>4, ConcludeConsumer
<1>5. CASE w # Consumer
  <2>1. /\ todo'[Consumer] = todo[Consumer]
        /\ pc'[Consumer] = pc[Consumer]
        /\ UNCHANGED event
    BY <1>5, ConsumerIsWorker DEF TypeOK, Conclude, Goto
  <2>2. ConsumerInTurn' /\ AckedIsTracked'
    BY <2>1, SameRows DEF ConsumerInTurn, AckedIsTracked, Handling
  <2> QED
    BY <1>1, <1>2, <1>3, <2>2
<1> QED
  BY <1>4, <1>5

\* Rejecting the message leaves the rows it has so far.
LEMMA NackTrackInv ==
    ASSUME IInv, TrackInv, Nack, ~ stored[Consumer], UNCHANGED replica
    PROVE  TrackInv'
<1> USE DEF IInv, TrackInv
<1>1. ConsumerInTurn'
  BY ConsumerIsWorker DEF TypeOK, Nack, ConsumerInTurn, SettleEvent, Goto
<1>2. StoredIsTracked'
  BY SameRows DEF TypeOK, Nack, StoredIsTracked, Goto, Current
<1>3. SweepsKeepToTracked'
  BY SameRows, WorkerAssumption, ConsumerIsWorker DEF TypeOK, SweepsKeepToTracked, Nack
<1>4. TrackedInOrder' /\ AckedIsTracked'
  BY SameRows DEF TypeOK, TrackedInOrder, AckedIsTracked, Nack, SettleEvent
<1> QED
  BY <1>1, <1>2, <1>3, <1>4

LEMMA GiveUpTrackInv ==
    ASSUME IInv, TrackInv, NEW w \in Workers, GiveUp(w), ~ stored[w],
           pc[w] \in {"pick", "settle"}, UNCHANGED replica
    PROVE  TrackInv'
  BY ConcludeTrackInv, NackTrackInv DEF GiveUp

LEMMA EndChunkTrackInv ==
    ASSUME IInv, TrackInv, NEW w \in Workers, PickNothing(w) \/ Settle(w)
    PROVE  TrackInv'
<1>1. CASE PickNothing(w)
  BY <1>1, GiveUpTrackInv DEF PickNothing, TrackInv, StoredIsTracked, tables, IInv, TypeOK
<1>2. CASE Settle(w) /\ stored[w]
  BY <1>2, ConcludeTrackInv DEF Settle, TrackInv, StoredIsTracked, tables
<1>3. CASE Settle(w) /\ ~ stored[w]
  BY <1>3, GiveUpTrackInv DEF Settle, tables
<1> QED
  BY <1>1, <1>2, <1>3

----------------------------------------------------------------------------
(* Recording a replica, and the other steps.                               *)

\* The consumer's current chunk is the first of its message without the guarantee of a
\* row: the place it has in the batch, and the ones before it.
LEMMA CurrentInTurn ==
    ASSUME IInv, TrackInv, todo[Consumer] # <<>>, NEW e \in Events, Handling(e)
    PROVE  \E k \in 1..Len(Batch[e]) :
              /\ Batch[e][k] = Current(Consumer)
              /\ \A j \in 1..(k - 1) : Tracked(Batch[e][j])
<1> DEFINE q == todo[Consumer]
           b == Batch[e]
<1>1. q \in Seq(Jobs) /\ q # <<>> /\ Len(q) \in Nat
  BY ConsumerIsWorker DEF IInv, TypeOK
<1>2. b \in Seq(Chunks) /\ Len(b) \in Nat
  BY BatchAssumption
<1>3. /\ Len(b) - Len(q) >= 0
      /\ \A i \in 1..Len(q) : q[i].chunk = b[Len(b) - Len(q) + i]
      /\ \A j \in 1..(Len(b) - Len(q)) : Tracked(b[j])
  BY DEF Handling
<1>4. Current(Consumer) = Head(q).chunk
  BY DEF Current
<1> HIDE DEF q, b
<1>5. Len(q) <= Len(b)
  BY <1>1, <1>2, <1>3
<1>6. Len(Tail(q)) = Len(q) - 1 /\ Len(q) >= 1
  BY <1>1
<1>7. Head(q).chunk = b[Len(b) - Len(Tail(q))]
  BY <1>1, <1>2, <1>3, <1>5, RestOfBatch
<1> DEFINE k == Len(b) - Len(Tail(q))
<1>8. k \in 1..Len(b) /\ k - 1 = Len(b) - Len(q)
  BY <1>1, <1>2, <1>5, <1>6
<1>9. b[k] = Current(Consumer) /\ \A j \in 1..(k - 1) : Tracked(b[j])
  BY <1>3, <1>4, <1>7, <1>8
<1> QED
  BY <1>8, <1>9 DEF b

\* The first row of a chunk is recorded in its turn.
LEMMA RecordInOrder ==
    ASSUME IInv, TrackInv, NEW w \in Workers, Record(w)
    PROVE  TrackedInOrder'
<1>1. Current(w) \in Chunks /\ Target(w) \in Nodes
  BY CurrentType DEF Record, IInv
<1>2. \A c \in Chunks : Tracked(c)' <=> Tracked(c) \/ c = Current(w)
  BY <1>1, TrackedRow DEF Record, IInv, TypeOK
<1>3. \A e \in Events : Batch[e] \in Seq(Chunks) /\ DOMAIN Batch[e] = 1..Len(Batch[e])
  BY BatchAssumption
<1>4. \A e \in Events : \A i \in DOMAIN Batch[e] : Batch[e][i] \in Chunks
  BY <1>3
<1>5. CASE w \in Sweeps
  <2>1. todo[w] \in Seq(Jobs) /\ todo[w] # <<>>
    BY DEF IInv, TypeOK, WorkersBusy, Record
  <2>2. 1 \in DOMAIN todo[w] /\ Head(todo[w]) = todo[w][1]
    BY <2>1
  <2>3. Tracked(Current(w))
    BY <1>5, <2>2 DEF TrackInv, SweepsKeepToTracked, Current
  <2> QED
    BY <1>2, <1>4, <2>3 DEF TrackInv, TrackedInOrder
<1>6. CASE w = Consumer
  <2>1. PICK e \in Events : Handling(e)
    BY <1>6 DEF TrackInv, ConsumerInTurn, Record
  <2>2. todo[Consumer] # <<>>
    BY <1>6 DEF IInv, WorkersBusy, Record
  <2>3. PICK k \in 1..Len(Batch[e]) :
              /\ Batch[e][k] = Current(Consumer)
              /\ \A j \in 1..(k - 1) : Tracked(Batch[e][j])
    BY <2>1, <2>2, CurrentInTurn
  <2> SUFFICES ASSUME NEW f \in Events, NEW i \in DOMAIN Batch[f], NEW j \in DOMAIN Batch[f],
                      i < j, Tracked(Batch[f][j])'
               PROVE  Tracked(Batch[f][i])'
    BY DEF TrackedInOrder
  <2>4. CASE Tracked(Batch[f][j])
    BY <1>2, <1>4, <2>4 DEF TrackInv, TrackedInOrder
  <2>5. CASE Batch[f][j] = Current(w)
    <3>1. f = e /\ j = k
      BY <1>3, <1>6, <2>3, <2>5, ChunkAssumption
    <3>2. i \in 1..(k - 1)
      BY <1>3, <3>1
    <3> QED
      BY <1>2, <1>4, <2>3, <3>1, <3>2
  <2> QED
    BY <1>2, <1>4, <2>4, <2>5
<1> QED
  BY <1>5, <1>6 DEF Workers

LEMMA RecordTrackInv ==
    ASSUME IInv, TrackInv, NEW w \in Workers, Record(w)
    PROVE  TrackInv'
<1>1. Current(w) \in Chunks /\ Target(w) \in Nodes
  BY CurrentType DEF Record, IInv
<1>2. \A c \in Chunks : Tracked(c) => Tracked(c)'
  BY <1>1, TrackedRow DEF Record, IInv, TypeOK
<1>3. Tracked(Current(w))'
  <2>1. replica'[Current(w)][Target(w)] = "synced" /\ UNCHANGED todo
    BY <1>1 DEF Record, IInv, TypeOK
  <2> QED
    BY <1>1, <2>1 DEF Tracked, HasRow, Current
<1>4. \A e \in Events : \A i \in 1..Len(Batch[e]) : i \in DOMAIN Batch[e] /\ Batch[e][i] \in Chunks
  BY BatchAssumption
<1>5. ConsumerInTurn'
  <2>1. CASE pc[Consumer] = "idle"
    BY <2>1, ConsumerIsWorker DEF TrackInv, ConsumerInTurn, Record, NextTarget, Goto, IInv, TypeOK
  <2>2. CASE pc[Consumer] # "idle"
    <3>1. PICK e \in Events : Handling(e)
      BY <2>2 DEF TrackInv, ConsumerInTurn
    <3>2. Len(todo[Consumer]) \in Nat /\ Len(Batch[e]) \in Nat
      BY ConsumerIsWorker, BatchAssumption DEF IInv, TypeOK
    <3>3. \A j \in 1..(Len(Batch[e]) - Len(todo[Consumer])) : Tracked(Batch[e][j])'
      BY <1>2, <1>4, <3>1, <3>2 DEF Handling
    <3>4. Handling(e)'
      BY <3>1, <3>3 DEF Handling, Record
    <3> QED
      BY <2>2, <3>4, ConsumerIsWorker DEF TrackInv, ConsumerInTurn, Record, NextTarget, Goto,
         IInv, TypeOK
  <2> QED
    BY <2>1, <2>2
<1>6. StoredIsTracked'
  <2> SUFFICES ASSUME NEW v \in Workers, stored'[v]
               PROVE  /\ pc'[v] \in {"copy", "count", "record", "settle"}
                      /\ Tracked(Current(v))'
    BY DEF StoredIsTracked
  <2>1. CASE v = w
    BY <1>3, <2>1 DEF Record, NextTarget, Goto, IInv, TypeOK
  <2>2. CASE v # w
    <3>1. /\ pc[v] \in {"copy", "count", "record", "settle"} /\ Tracked(Current(v))
          /\ pc'[v] = pc[v]
      BY <2>2 DEF TrackInv, StoredIsTracked, Record, NextTarget, Goto, IInv, TypeOK
    <3>2. todo[v] \in Seq(Jobs) /\ todo[v] # <<>>
      BY <3>1 DEF IInv, TypeOK, WorkersBusy
    <3>3. Head(todo[v]) \in Jobs
      BY <3>2
    <3>4. Current(v) \in Chunks
      BY <3>3 DEF Current, Jobs
    <3> QED
      BY <1>2, <3>1, <3>4 DEF Record, Current
  <2> QED
    BY <2>1, <2>2
<1>7. SweepsKeepToTracked'
  <2>1. \A s \in Sweeps : todo[s] \in Seq(Jobs)
    BY ConsumerIsWorker DEF IInv, TypeOK
  <2>2. \A s \in Sweeps : \A i \in DOMAIN todo[s] : todo[s][i] \in Jobs
    BY <2>1
  <2>3. \A s \in Sweeps : \A i \in DOMAIN todo[s] : todo[s][i].chunk \in Chunks
    BY <2>2 DEF Jobs
  <2> QED
    BY <1>2, <2>3 DEF TrackInv, SweepsKeepToTracked, Record
<1>8. AckedIsTracked'
  <2>1. \A e \in Events : DOMAIN Batch[e] = 1..Len(Batch[e])
    BY BatchAssumption
  <2> QED
    BY <1>2, <1>4, <2>1 DEF TrackInv, AckedIsTracked, Record
<1> QED
  BY <1>5, <1>6, <1>7, <1>8, RecordInOrder DEF TrackInv

\* A sweep's steps: rows turn lost but stay, and its new jobs are tracked chunks.
LEMMA SweepTrackInv ==
    ASSUME IInv, TrackInv, NEW s \in Sweeps, SweepStep(s)
    PROVE  TrackInv'
<1>0. s \in Workers /\ s # Consumer
  BY WorkerAssumption, ConsumerIsWorker
<1>1. CASE SweepStarts(s)
  BY <1>0, <1>1, FrameTrackInv DEF IInv, TypeOK, TrackInv, StoredIsTracked, SweepStarts, Goto,
     tables, copying
<1>2. CASE ListAtRisk(s)
  BY <1>0, <1>2, FrameTrackInv DEF IInv, TypeOK, TrackInv, StoredIsTracked, ListAtRisk, Goto,
     tables, copying
<1>3. CASE MarkLost(s)
  <2>1. PICK r \in atRisk[s] : replica' = [replica EXCEPT ![r[1]][r[2]] = "lost"]
    BY <1>3 DEF MarkLost
  <2>2. r[1] \in Chunks /\ r[2] \in Nodes /\ replica[r[1]][r[2]] # "none"
    BY DEF IInv, TypeOK, AtRiskHasRow
  <2>3. \A c \in Chunks : \A n \in Nodes : replica'[c][n] # "none" <=> replica[c][n] # "none"
    BY <2>1, <2>2 DEF IInv, TypeOK
  <2>4. \A c \in Chunks : Tracked(c)' <=> Tracked(c)
    BY <2>3, TrackedRow
  <2>5. /\ pc'[Consumer] = pc[Consumer]
        /\ \A w \in Workers : stored[w] => pc'[w] = pc[w]
        /\ UNCHANGED <<event, todo, stored>>
    BY <1>0, <1>3, ConsumerIsWorker DEF MarkLost, Goto, IInv, TypeOK, TrackInv, StoredIsTracked,
       copying
  <2>6. \A e \in Events : \A i \in 1..Len(Batch[e]) : i \in DOMAIN Batch[e] /\ Batch[e][i] \in Chunks
    BY BatchAssumption
  <2>7. \A e \in Events : DOMAIN Batch[e] = 1..Len(Batch[e]) /\ Len(Batch[e]) \in Nat
    BY BatchAssumption
  <2>8. \A w \in Workers : todo[w] \in Seq(Jobs)
    BY DEF IInv, TypeOK
  <2>9. \A w \in Workers : \A i \in DOMAIN todo[w] : todo[w][i] \in Jobs
    BY <2>8
  <2>10. \A w \in Workers : todo[w] # <<>> => Head(todo[w]) \in Jobs
    BY <2>8
  <2>11. \A w \in Workers : stored[w] => Current(w) \in Chunks
    BY <2>10 DEF TrackInv, StoredIsTracked, IInv, WorkersBusy, Current, Jobs
  <2>12. ConsumerInTurn'
    <3>1. \A e \in Events : Handling(e) => Handling(e)'
      <4> SUFFICES ASSUME NEW e \in Events, Handling(e) PROVE Handling(e)'
        OBVIOUS
      <4>1. Len(todo[Consumer]) \in Nat /\ Len(Batch[e]) \in Nat
        BY <2>7, <2>8, ConsumerIsWorker
      <4>2. \A j \in 1..(Len(Batch[e]) - Len(todo[Consumer])) : Tracked(Batch[e][j])'
        <5> SUFFICES ASSUME NEW j \in 1..(Len(Batch[e]) - Len(todo[Consumer]))
                     PROVE  Tracked(Batch[e][j])'
          OBVIOUS
        <5>1. j \in 1..Len(Batch[e])
          BY <4>1
        <5>2. Batch[e][j] \in Chunks
          BY <2>6, <5>1
        <5>3. Tracked(Batch[e][j])
          BY DEF Handling
        <5> QED
          BY <2>4, <5>2, <5>3
      <4> QED
        BY <2>5, <4>2 DEF Handling
    <3> QED
      BY <2>5, <3>1 DEF TrackInv, ConsumerInTurn
  <2>13. StoredIsTracked'
    BY <2>4, <2>5, <2>11 DEF TrackInv, StoredIsTracked, Current
  <2>14. SweepsKeepToTracked'
    BY <2>4, <2>5, <2>9, ConsumerIsWorker DEF TrackInv, SweepsKeepToTracked, Jobs
  <2>15. TrackedInOrder' /\ AckedIsTracked'
    BY <2>4, <2>5, <2>6, <2>7 DEF TrackInv, TrackedInOrder, AckedIsTracked
  <2> QED
    BY <2>12, <2>13, <2>14, <2>15 DEF TrackInv
<1>4. CASE ListUnderReplicated(s)
  <2>1. PICK q \in Listings(UnderReplicated) :
            /\ todo' = [todo EXCEPT ![s] = [i \in DOMAIN q |->
                  [chunk |-> q[i],
                   needed |-> ReplicationFactor - Cardinality(Synced(q[i]))]]]
            /\ Goto(s, IF q = <<>> THEN "idle" ELSE "rows")
    BY <1>4 DEF ListUnderReplicated
  <2>2. \A i \in DOMAIN q : Tracked(q[i])
    BY FiniteAssumption, FS_Subset, ListingsType DEF UnderReplicated
  <2>3. UNCHANGED <<replica, event, stored>>
    BY <1>4 DEF ListUnderReplicated, tables, copying
  <2>4. todo'[Consumer] = todo[Consumer] /\ pc'[Consumer] = pc[Consumer]
    BY <1>0, <2>1, ConsumerIsWorker DEF IInv, TypeOK, Goto
  <2>5. ConsumerInTurn'
    BY <2>3, <2>4, SameRows DEF TrackInv, ConsumerInTurn, Handling
  <2>6. StoredIsTracked'
    BY <1>0, <1>4, <2>1, <2>3, SameRows DEF ListUnderReplicated, TrackInv, StoredIsTracked, Goto,
       Current, IInv, TypeOK
  <2>7. SweepsKeepToTracked'
    BY <1>0, <2>1, <2>2, <2>3, SameRows, ConsumerIsWorker DEF TrackInv, SweepsKeepToTracked, IInv, TypeOK
  <2>8. TrackedInOrder' /\ AckedIsTracked'
    BY <2>3, SameRows DEF TrackInv, TrackedInOrder, AckedIsTracked
  <2> QED
    BY <2>5, <2>6, <2>7, <2>8 DEF TrackInv
<1>5. CASE ListRows(s)
  BY <1>0, <1>5, FrameTrackInv DEF IInv, TypeOK, TrackInv, StoredIsTracked, ListRows, Goto, tables
<1>6. CASE SweepFails(s)
  <2>1. UNCHANGED <<replica, event, stored>>
    BY <1>6 DEF SweepFails, tables, copying
  <2>2. todo'[Consumer] = todo[Consumer] /\ pc'[Consumer] = pc[Consumer]
    BY <1>0, <1>6, ConsumerIsWorker DEF IInv, TypeOK, Goto, SweepFails
  <2>3. ConsumerInTurn'
    BY <2>1, <2>2, SameRows DEF TrackInv, ConsumerInTurn, Handling
  <2>4. StoredIsTracked'
    BY <1>0, <1>6, <2>1, SameRows DEF SweepFails, TrackInv, StoredIsTracked, Goto, Current, IInv, TypeOK
  <2>5. SweepsKeepToTracked'
    BY <1>0, <1>6, <2>1, SameRows, ConsumerIsWorker DEF SweepFails, TrackInv, SweepsKeepToTracked, IInv, TypeOK
  <2>6. TrackedInOrder' /\ AckedIsTracked'
    BY <2>1, SameRows DEF TrackInv, TrackedInOrder, AckedIsTracked
  <2> QED
    BY <2>3, <2>4, <2>5, <2>6 DEF TrackInv
<1> QED
  BY <1>1, <1>2, <1>3, <1>4, <1>5, <1>6 DEF SweepStep

\* A message is taken on when the consumer is idle, with all of its chunks to do.
LEMMA DeliverTrackInv ==
    ASSUME IInv, TrackInv, NEW e \in Events, Deliver(e)
    PROVE  TrackInv'
<1> DEFINE q == [i \in DOMAIN Batch[e] |->
                    [chunk |-> Batch[e][i], needed |-> ReplicationFactor]]
<1>1. Batch[e] \in Seq(Chunks) /\ Len(Batch[e]) \in Nat /\ DOMAIN Batch[e] = 1..Len(Batch[e])
  BY BatchAssumption
<1>2. Len(q) = Len(Batch[e]) /\ \A i \in 1..Len(q) : q[i].chunk = Batch[e][i]
  BY <1>1
<1>3. todo'[Consumer] = q /\ event' = [event EXCEPT ![e] = "unacked"]
  BY ConsumerIsWorker DEF Deliver, IInv, TypeOK
<1>4. \A f \in Events : event[f] # "unacked"
  BY DEF Deliver, TrackInv, ConsumerInTurn
<1> HIDE DEF q
<1>5. Len(Batch[e]) - Len(q) = 0
  BY <1>1, <1>2
<1>6. \A i \in 1..Len(q) : q[i].chunk = Batch[e][Len(Batch[e]) - Len(q) + i]
  BY <1>1, <1>2, <1>5
<1>7. Handling(e)'
  <2>1. event'[e] = "unacked" /\ \A f \in Events : event'[f] = "unacked" => f = e
    BY <1>3, <1>4 DEF IInv, TypeOK
  <2>2. \A j \in 1..(Len(Batch[e]) - Len(q)) : FALSE
    BY <1>5
  <2> QED
    BY <1>3, <1>5, <1>6, <2>1, <2>2 DEF Handling
<1>8. ConsumerInTurn'
  BY <1>7, ConsumerIsWorker DEF ConsumerInTurn, Deliver, Goto, IInv, TypeOK
<1>9. StoredIsTracked'
  BY SameRows DEF Deliver, TrackInv, StoredIsTracked, Goto, Current, IInv, TypeOK, tables, copying
<1>10. SweepsKeepToTracked'
  BY SameRows, WorkerAssumption, ConsumerIsWorker DEF Deliver, TrackInv, SweepsKeepToTracked,
     IInv, TypeOK, tables
<1>11. TrackedInOrder' /\ AckedIsTracked'
  BY <1>3, SameRows DEF Deliver, TrackInv, TrackedInOrder, AckedIsTracked, IInv, TypeOK, tables
<1> QED
  BY <1>8, <1>9, <1>10, <1>11 DEF TrackInv

\* A crash returns the message: nothing is being handled.
LEMMA CrashTrackInv == ASSUME IInv, TrackInv, Crash PROVE TrackInv'
<1>1. ConsumerInTurn' /\ StoredIsTracked'
  BY ConsumerIsWorker DEF Crash, Halt, ConsumerInTurn, StoredIsTracked, SettleEvent
<1>2. SweepsKeepToTracked'
  BY ConsumerIsWorker DEF Crash, Halt, SweepsKeepToTracked
<1>3. TrackedInOrder' /\ AckedIsTracked'
  BY SameRows DEF Crash, Halt, TrackInv, TrackedInOrder, AckedIsTracked, SettleEvent, tables
<1> QED
  BY <1>1, <1>2, <1>3 DEF TrackInv

LEMMA PublishTrackInv ==
    ASSUME IInv, TrackInv, NEW e \in Events, Publish(e) \/ PublishFails(e)
    PROVE  TrackInv'
<1>1. \A f \in Events : event[f] # "unpublished" => event'[f] = event[f]
  BY DEF Publish, PublishFails, IInv, TypeOK
<1>2. \A f \in Events : event'[f] \in {"unacked", "acked"} => event'[f] = event[f]
  BY DEF Publish, PublishFails, IInv, TypeOK
<1>3. UNCHANGED <<replica, pc, todo, stored>>
  BY DEF Publish, PublishFails, tables, copying
<1>4. ConsumerInTurn'
  <2>1. \A f \in Events : Handling(f) => Handling(f)'
    BY <1>1, <1>2, <1>3, SameRows DEF Handling
  <2> QED
    BY <1>2, <1>3, <2>1 DEF TrackInv, ConsumerInTurn
<1>5. StoredIsTracked' /\ SweepsKeepToTracked' /\ TrackedInOrder' /\ AckedIsTracked'
  BY <1>2, <1>3, SameRows DEF TrackInv, StoredIsTracked, SweepsKeepToTracked, TrackedInOrder,
     AckedIsTracked, Current
<1> QED
  BY <1>4, <1>5 DEF TrackInv

LEMMA NextTrackInv == IInv /\ TrackInv /\ [Next]_vars => TrackInv'
<1> SUFFICES ASSUME IInv, TrackInv, [Next]_vars PROVE TrackInv'
  OBVIOUS
<1>1. ASSUME NEW e \in Events, Publish(e) \/ PublishFails(e) \/ Deliver(e)
      PROVE  TrackInv'
  BY <1>1, PublishTrackInv, DeliverTrackInv
<1>2. ASSUME NEW w \in Workers, CopyStep(w)
      PROVE  TrackInv'
  BY <1>2, PickTrackInv, EndChunkTrackInv, CopyTrackInv, CountTrackInv, RecordTrackInv,
     TargetFailsTrackInv DEF CopyStep
<1>3. ASSUME NEW s \in Sweeps, SweepStep(s)
      PROVE  TrackInv'
  BY <1>3, SweepTrackInv
<1>4. ASSUME NEW n \in Nodes, NodeFails(n) \/ NodeReturns(n)
      PROVE  TrackInv'
  BY <1>4, FrameTrackInv DEF NodeFails, NodeReturns, TrackInv, StoredIsTracked, copying
<1>5. CASE Crash
  BY <1>5, CrashTrackInv
<1>6. CASE UNCHANGED vars
  BY <1>6, FrameTrackInv DEF vars, TrackInv, StoredIsTracked
<1> QED
  BY <1>1, <1>2, <1>3, <1>4, <1>5, <1>6 DEF Next

LEMMA TrackInductive == Spec => [](IInv /\ TrackInv)
  BY Inductive, InitTrackInv, NextTrackInv, PTL DEF Spec

\* An acknowledgement never hides a chunk from self-healing, whatever crashes, is redelivered
\* or works on the same chunks meanwhile.
THEOREM AckedAreTracked == Spec => []AckedIsTracked
<1>1. TrackInv => AckedIsTracked
  BY DEF TrackInv
<1> QED
  BY <1>1, TrackInductive, PTL

\* The chunks of a message get their first rows in the order of its batch.
THEOREM RowsComeInOrder == Spec => []TrackedInOrder
<1>1. TrackInv => TrackedInOrder
  BY DEF TrackInv
<1> QED
  BY <1>1, TrackInductive, PTL

----------------------------------------------------------------------------
(* Refinement: every step of the service is one of the ledger or leaves    *)
(* bucket, replica and event alone.                                        *)

LEMMA SettleMoves ==
    ASSUME TypeOK, NEW outcome \in EventStates, SettleEvent(outcome),
           UNCHANGED <<bucket, replica>>,
           \A e \in Events : event[e] = "unacked" => outcome \in Ledger!Successors(e),
           \A e, f \in Events : event[e] = "unacked" /\ event[f] = "unacked" => e = f
    PROVE  [Ledger!Next]_(Ledger!vars)
<1>1. CASE \A e \in Events : event[e] # "unacked"
  <2>1. event' = event
    BY <1>1 DEF SettleEvent, TypeOK
  <2> QED
    BY <2>1 DEF Ledger!vars
<1>2. ASSUME NEW e \in Events, event[e] = "unacked"
      PROVE  Ledger!Next
  <2>1. event' = [event EXCEPT ![e] = outcome]
    BY <1>2 DEF SettleEvent, TypeOK
  <2> QED
    BY <1>2, <2>1 DEF Ledger!Next, Ledger!Move
<1> QED
  BY <1>1, <1>2

\* Of the messages being handled there is one at most.
LEMMA OneHandled ==
    ASSUME TrackInv, NEW e \in Events, NEW f \in Events,
           event[e] = "unacked", event[f] = "unacked"
    PROVE  e = f
  BY DEF TrackInv, ConsumerInTurn, Handling

LEMMA RejectedSuccessor ==
    ASSUME NEW e \in Events, event[e] = "unacked"
    PROVE  "ready" \in Ledger!Successors(e) /\ "dropped" \in Ledger!Successors(e)
  BY DEF Ledger!Successors

LEMMA ConcludeLedger ==
    ASSUME IInv, TrackInv, NEW w \in Workers, Conclude(w), pc[w] \in {"pick", "settle"},
           w = Consumer => Tracked(Current(w)), UNCHANGED <<bucket, replica>>
    PROVE  [Ledger!Next]_(Ledger!vars)
<1>1. CASE UNCHANGED event
  BY <1>1 DEF Ledger!vars
<1>2. CASE w = Consumer /\ SettleEvent("acked")
  <2>1. \A e \in Events : event[e] = "unacked" => event'[e] = "acked"
    BY <1>2 DEF SettleEvent
  <2>2. AckedIsTracked'
    BY ConcludeTrackInv DEF TrackInv
  <2>3. \A e \in Events : event[e] = "unacked" =>
            \A i \in 1..Len(Batch[e]) : \E n \in Nodes : replica[Batch[e][i]][n] # "none"
    <3>1. \A e \in Events : DOMAIN Batch[e] = 1..Len(Batch[e])
      BY BatchAssumption
    <3> QED
      BY <2>1, <2>2, <3>1, SameRows, TrackedRow DEF AckedIsTracked
  <2>4. \A e \in Events : event[e] = "unacked" => "acked" \in Ledger!Successors(e)
    BY <2>3 DEF Ledger!Successors, Ledger!Tracked
  <2> QED
    BY <1>2, <2>4, OneHandled, SettleMoves DEF IInv, EventStates
<1> QED
  BY <1>1, <1>2 DEF Conclude

LEMMA GiveUpLedger ==
    ASSUME IInv, TrackInv, NEW w \in Workers, GiveUp(w), pc[w] \in {"pick", "settle"},
           UNCHANGED <<bucket, replica>>
    PROVE  [Ledger!Next]_(Ledger!vars)
<1>1. CASE w = Consumer
  <2>1. SettleEvent("dropped")
    BY <1>1 DEF GiveUp, Nack
  <2> QED
    BY <2>1, RejectedSuccessor, OneHandled, SettleMoves DEF IInv, EventStates
<1>2. CASE w # Consumer
  BY <1>2, ConcludeLedger DEF GiveUp
<1> QED
  BY <1>1, <1>2

LEMMA CopyLedger ==
    ASSUME IInv, NEW w \in Workers, Copy(w)
    PROVE  Ledger!Next
<1>1. Current(w) \in Chunks /\ Target(w) \in Nodes
  BY CurrentType DEF Copy, IInv
<1>2. Ledger!Store(Current(w), Target(w))
  BY DEF Copy, Ledger!Store, tables
<1> QED
  BY <1>1, <1>2 DEF Ledger!Next

LEMMA RecordLedger ==
    ASSUME IInv, TrackInv, NEW w \in Workers, Record(w)
    PROVE  Ledger!Next
<1>1. Current(w) \in Chunks /\ Target(w) \in Nodes
  BY CurrentType DEF Record, IInv
<1>2. StorageKey[Current(w)] \in bucket[Target(w)]
  BY DEF Record, IInv, CopiedIsStored
<1>3. Ledger!Tracked(Current(w)) \/ Ledger!InTurn(Current(w))
  <2>1. todo[w] \in Seq(Jobs) /\ todo[w] # <<>>
    BY DEF IInv, TypeOK, WorkersBusy, Record
  <2>2. CASE w \in Sweeps
    <3>1. 1 \in DOMAIN todo[w] /\ Head(todo[w]) = todo[w][1]
      BY <2>1
    <3>2. Tracked(Current(w))
      BY <2>2, <3>1 DEF TrackInv, SweepsKeepToTracked, Current
    <3> QED
      BY <3>2, TrackedRow DEF Ledger!Tracked
  <2>3. CASE w = Consumer
    <3>1. PICK e \in Events : Handling(e)
      BY <2>3 DEF TrackInv, ConsumerInTurn, Record
    <3>2. PICK k \in 1..Len(Batch[e]) :
              /\ Batch[e][k] = Current(Consumer)
              /\ \A j \in 1..(k - 1) : Tracked(Batch[e][j])
      BY <2>1, <2>3, <3>1, CurrentInTurn
    <3>3. \A j \in 1..(k - 1) : Ledger!Tracked(Batch[e][j])
      BY <3>2, TrackedRow DEF Ledger!Tracked
    <3> QED
      BY <2>3, <3>1, <3>2, <3>3 DEF Ledger!InTurn, Handling
  <2> QED
    BY <2>2, <2>3 DEF Workers
<1>4. Ledger!Track(Current(w), Target(w))
  BY <1>2, <1>3 DEF Ledger!Track, Record
<1> QED
  BY <1>1, <1>4 DEF Ledger!Next

LEMMA CopyStepLedger ==
    ASSUME IInv, TrackInv, NEW w \in Workers, CopyStep(w)
    PROVE  [Ledger!Next]_(Ledger!vars)
<1>1. CASE Pick(w) \/ Count(w) \/ TargetFails(w)
  BY <1>1 DEF Pick, Count, TargetFails, tables, Ledger!vars
<1>2. CASE PickNothing(w)
  BY <1>2, GiveUpLedger DEF PickNothing, tables
<1>3. CASE Copy(w)
  BY <1>3, CopyLedger
<1>4. CASE Record(w)
  BY <1>4, RecordLedger
<1>5. CASE Settle(w)
  BY <1>5, GiveUpLedger, ConcludeLedger DEF Settle, TrackInv, StoredIsTracked, tables
<1> QED
  BY <1>1, <1>2, <1>3, <1>4, <1>5 DEF CopyStep

LEMMA SweepLedger ==
    ASSUME IInv, NEW s \in Sweeps, SweepStep(s)
    PROVE  [Ledger!Next]_(Ledger!vars)
<1>1. CASE MarkLost(s)
  <2>1. PICK r \in atRisk[s] : replica' = [replica EXCEPT ![r[1]][r[2]] = "lost"]
    BY <1>1 DEF MarkLost
  <2>2. r[1] \in Chunks /\ r[2] \in Nodes /\ replica[r[1]][r[2]] \in {"synced", "lost"}
    BY DEF IInv, TypeOK, AtRiskHasRow, Statuses
  <2>3. UNCHANGED <<bucket, event>>
    BY <1>1 DEF MarkLost
  <2>4. CASE replica[r[1]][r[2]] = "synced"
    BY <2>1, <2>2, <2>3, <2>4 DEF Ledger!Next, Ledger!Lose
  <2>5. CASE replica[r[1]][r[2]] = "lost"
    <3>1. replica' = replica
      BY <2>1, <2>2, <2>5 DEF IInv, TypeOK
    <3> QED
      BY <2>3, <3>1 DEF Ledger!vars
  <2> QED
    BY <2>2, <2>4, <2>5
<1>2. CASE \/ SweepStarts(s) \/ ListAtRisk(s) \/ ListUnderReplicated(s) \/ ListRows(s)
           \/ SweepFails(s)
  BY <1>2 DEF SweepStarts, ListAtRisk, ListUnderReplicated, ListRows, SweepFails, tables, Ledger!vars
<1> QED
  BY <1>1, <1>2 DEF SweepStep

LEMMA EventLedger ==
    ASSUME IInv, TrackInv, NEW e \in Events, Publish(e) \/ PublishFails(e) \/ Deliver(e)
    PROVE  Ledger!Next
<1>1. UNCHANGED <<bucket, replica>>
  BY DEF Publish, PublishFails, Deliver, tables
<1>2. CASE Publish(e)
  <2>1. "ready" \in Ledger!Successors(e)
    BY <1>2 DEF Publish, Ledger!Successors
  <2> QED
    BY <1>1, <1>2, <2>1 DEF Publish, Ledger!Next, Ledger!Move
<1>3. CASE PublishFails(e)
  <2>1. "unsent" \in Ledger!Successors(e)
    BY <1>3 DEF PublishFails, Ledger!Successors
  <2> QED
    BY <1>1, <1>3, <2>1 DEF PublishFails, Ledger!Next, Ledger!Move
<1>4. CASE Deliver(e)
  <2>1. "unacked" \in Ledger!Successors(e)
    BY <1>4 DEF Deliver, Ledger!Successors, TrackInv, ConsumerInTurn
  <2> QED
    BY <1>1, <1>4, <2>1 DEF Deliver, Ledger!Next, Ledger!Move
<1> QED
  BY <1>2, <1>3, <1>4

LEMMA NextLedger == IInv /\ TrackInv /\ [Next]_vars => [Ledger!Next]_(Ledger!vars)
<1> SUFFICES ASSUME IInv, TrackInv, [Next]_vars PROVE [Ledger!Next]_(Ledger!vars)
  OBVIOUS
<1>1. CASE \E n \in Nodes : NodeFails(n) \/ NodeReturns(n)
  BY <1>1 DEF NodeFails, NodeReturns, Ledger!vars
<1>2. CASE Crash
  BY <1>2, RejectedSuccessor, OneHandled, SettleMoves DEF Crash, Halt, tables, IInv, EventStates
<1>3. CASE UNCHANGED vars
  BY <1>3 DEF vars, Ledger!vars
<1> QED
  BY <1>1, <1>2, <1>3, EventLedger, CopyStepLedger, SweepLedger DEF Next

\* The service implements the ledger: no row without its bytes, first rows only in the turn of
\* the message being handled, one message at a time, acknowledged only when every chunk has a
\* row and never handled again once settled.
THEOREM ServiceKeepsLedger == Spec => KeepsLedger
<1>1. Init => Ledger!Init
  BY DEF Init, Ledger!Init
<1> QED
  BY <1>1, NextLedger, TrackInductive, PTL DEF Spec, KeepsLedger, Ledger!Spec

----------------------------------------------------------------------------
(* used_bytes drifts upwards by a bounded amount: a worker has still to    *)
(* count a chunk on a node, or has done so, and only a fault sends it back.*)

\* A worker in the middle of a chunk may still count it on a node.
Aims(w, c, n) ==
    /\ Current(w) = c
    /\ \/ pc[w] = "pick" /\ n \notin exclude[w]
       \/ pc[w] \in {"copy", "count"} /\ \E i \in 1..Len(targets[w]) : targets[w][i] = n
       \/ pc[w] = "record" /\ \E i \in 2..Len(targets[w]) : targets[w][i] = n

\* The consumer has a chunk yet to come.
ToCome(c) ==
    \/ \E i \in 2..Len(todo[Consumer]) : todo[Consumer][i].chunk = c
    \/ \E e \in Events :
        /\ event[e] \in {"unpublished", "ready"}
        /\ \E i \in 1..Len(Batch[e]) : Batch[e][i] = c

\* A sweep can choose a node for a chunk as long as there is no row.
MayCount(w, c, n) ==
    \/ Aims(w, c, n)
    \/ w = Consumer /\ ToCome(c)
    \/ w # Consumer /\ replica[c][n] = "none" /\ ~ Upserting(w, c, n)

\* Who may have counted what on a node, and who may do so yet.
Pairs(n) == Workers \X {c \in Chunks : StorageKey[c] \in bucket[n]}
OpenPairs(n) == {p \in Pairs(n) : MayCount(p[1], p[2], n)}

AllPairs == Workers \X Chunks
PairSize == [p \in AllPairs |-> SizeBytes[p[2]]]
PairBytes == CHOOSE m : Additive(m, AllPairs, PairSize)

\* Each worker's target list names a node once.
TargetsDiffer ==
    \A w \in Workers : \A i, j \in 1..Len(targets[w]) : targets[w][i] = targets[w][j] => i = j

DriftBounded ==
    \A n \in Nodes :
        usedBytes[n] + PairBytes[OpenPairs(n)] <= (1 + faults) * PairBytes[Pairs(n)]

----------------------------------------------------------------------------
(* Sums over pairs.                                                        *)

LEMMA AdditiveUnion ==
    ASSUME NEW S, IsFiniteSet(S), NEW w \in [S -> Nat], NEW m, Additive(m, S, w),
           NEW A \in SUBSET S, NEW T \in SUBSET S, A \intersect T = {}
    PROVE  m[A \union T] = m[A] + m[T]
<1> DEFINE B == {t \in SUBSET T : m[A \union t] # m[A] + m[t]}
<1>1. ASSUME B # {} PROVE FALSE
  <2>1. PICK t \in B : \A u \in B : u \subseteq t => u = t
    <3>1. B \subseteq SUBSET T /\ IsFiniteSet(T)
      BY FS_Subset
    <3> HIDE DEF B
    <3> QED
      BY <1>1, <3>1, MinimalSubset
  <2>2. m \in [SUBSET S -> Nat] /\ m[{}] = 0
    BY DEF Additive
  <2>3. CASE t = {}
    <3>1. A \union t = A
      BY <2>3
    <3>2. m[A] \in Nat
      BY <2>2
    <3>3. m[A \union t] = m[A] + m[t]
      BY <2>2, <2>3, <3>1, <3>2
    <3> QED
      BY <2>1, <3>3
  <2>4. CASE t # {}
    <3>1. PICK x \in t : TRUE
      BY <2>4
    <3> DEFINE u == t \ {x}
    <3>2. u \notin B /\ u \in SUBSET T
      BY <2>1, <3>1
    <3>3. m[A \union u] = m[A] + m[u]
      BY <3>2
    <3>4. (A \union t) \ {x} = A \union u
      BY <3>1
    <3>5. A \union t \in SUBSET S /\ t \in SUBSET S /\ x \in A \union t /\ u \in SUBSET S
          /\ A \union u \in SUBSET S
      BY <3>1
    <3>6. m[A \union t] = w[x] + m[(A \union t) \ {x}]
      BY <3>5 DEF Additive
    <3>7. m[t] = w[x] + m[u]
      BY <3>1, <3>5 DEF Additive
    <3>8. w[x] \in Nat /\ m[A] \in Nat /\ m[u] \in Nat
      BY <2>2, <3>1, <3>5
    <3>9. m[A \union t] = m[A] + m[t]
      <4>1. m[A \union t] = w[x] + m[A \union u]
        BY <3>4, <3>6
      <4>2. m[A \union t] = w[x] + (m[A] + m[u])
        BY <3>3, <4>1
      <4>3. \A i, j, k \in Nat : i + (j + k) = j + (i + k)
        OBVIOUS
      <4> HIDE DEF u, B
      <4>4. w[x] + (m[A] + m[u]) = m[A] + (w[x] + m[u])
        BY <3>8, <4>3
      <4> QED
        BY <3>7, <4>2, <4>4
    <3> QED
      BY <2>1, <3>9
  <2> QED
    BY <2>3, <2>4
<1> QED
  BY <1>1

LEMMA PairSizeType ==
    ASSUME IsFiniteSet(Sweeps)
    PROVE  /\ IsFiniteSet(Workers) /\ IsFiniteSet(AllPairs)
           /\ PairSize \in [AllPairs -> Nat]
<1>1. IsFiniteSet(Workers)
  BY FS_Singleton, FS_Union DEF Workers
<1>2. IsFiniteSet(AllPairs)
  BY <1>1, FiniteAssumption, FS_Product DEF AllPairs
<1>3. \A p \in AllPairs : p[2] \in Chunks
  BY DEF AllPairs
<1>4. PairSize \in [AllPairs -> Nat]
  BY <1>3, SizeAssumption DEF PairSize
<1> QED
  BY <1>1, <1>2, <1>4

LEMMA PairBytesAdditive ==
    ASSUME IsFiniteSet(Sweeps)
    PROVE  Additive(PairBytes, AllPairs, PairSize)
<1>1. \E m : Additive(m, AllPairs, PairSize)
  BY PairSizeType, AdditiveExists
<1> QED
  BY <1>1 DEF PairBytes

LEMMA PairBytesAdd ==
    ASSUME IsFiniteSet(Sweeps)
    PROVE  /\ PairBytes[{}] = 0
           /\ \A S \in SUBSET AllPairs : PairBytes[S] \in Nat
           /\ \A S, T \in SUBSET AllPairs :
                /\ S \intersect T = {} => PairBytes[S \union T] = PairBytes[S] + PairBytes[T]
                /\ S \subseteq T => PairBytes[T] = PairBytes[S] + PairBytes[T \ S]
           /\ \A p \in AllPairs : PairBytes[{p}] = SizeBytes[p[2]]
<1>1. PairBytes[{}] = 0 /\ \A S \in SUBSET AllPairs : PairBytes[S] \in Nat
  BY PairBytesAdditive DEF Additive
<1>2. ASSUME NEW S \in SUBSET AllPairs, NEW T \in SUBSET AllPairs, S \intersect T = {}
      PROVE  PairBytes[S \union T] = PairBytes[S] + PairBytes[T]
  BY <1>2, PairSizeType, PairBytesAdditive, AdditiveUnion
<1>3. ASSUME NEW S \in SUBSET AllPairs, NEW T \in SUBSET AllPairs, S \subseteq T
      PROVE  PairBytes[T] = PairBytes[S] + PairBytes[T \ S]
  <2>1. S \intersect (T \ S) = {} /\ S \union (T \ S) = T /\ T \ S \in SUBSET AllPairs
    BY <1>3
  <2> QED
    BY <1>2, <2>1
<1>4. ASSUME NEW p \in AllPairs
      PROVE  PairBytes[{p}] = SizeBytes[p[2]]
  <2>1. PairBytes[{p}] = PairSize[p] + PairBytes[{p} \ {p}]
    BY PairBytesAdditive DEF Additive
  <2>2. {p} \ {p} = {}
    OBVIOUS
  <2>3. PairSize[p] \in Nat /\ PairSize[p] = SizeBytes[p[2]]
    BY PairSizeType DEF PairSize
  <2>4. PairBytes[{p}] = SizeBytes[p[2]] + 0
    BY <1>1, <2>1, <2>2, <2>3
  <2>5. SizeBytes[p[2]] + 0 = SizeBytes[p[2]]
    BY <2>3
  <2> QED
    BY <2>4, <2>5
<1> QED
  BY <1>1, <1>2, <1>3, <1>4

\* The pairs of one worker add up to the bytes of its chunks.
LEMMA PairBytesOfOne ==
    ASSUME IsFiniteSet(Sweeps), NEW w \in Workers, NEW T \in SUBSET Chunks
    PROVE  PairBytes[{w} \X T] = BytesOf(T)
<1> DEFINE B == {t \in SUBSET T : PairBytes[{w} \X t] # BytesOf(t)}
<1>1. ASSUME B # {} PROVE FALSE
  <2>1. PICK t \in B : \A u \in B : u \subseteq t => u = t
    <3>1. B \subseteq SUBSET T /\ IsFiniteSet(T)
      BY FiniteAssumption, FS_Subset
    <3> HIDE DEF B
    <3> QED
      BY <1>1, <3>1, MinimalSubset
  <2>2. CASE t = {}
    <3>1. {w} \X t = {}
      BY <2>2
    <3> QED
      BY <2>1, <2>2, <3>1, PairBytesAdd, BytesAddUp
  <2>3. CASE t # {}
    <3>1. PICK c \in t : TRUE
      BY <2>3
    <3> DEFINE u == t \ {c}
    <3>2. u \notin B /\ u \in SUBSET T
      BY <2>1, <3>1
    <3>3. PairBytes[{w} \X u] = BytesOf(u)
      BY <3>2
    <3>4. /\ {w} \X u \in SUBSET AllPairs /\ <<w, c>> \in AllPairs
          /\ {<<w, c>>} \in SUBSET AllPairs
          /\ {<<w, c>>} \intersect ({w} \X u) = {}
          /\ {w} \X t = {<<w, c>>} \union ({w} \X u)
      BY <3>1 DEF AllPairs
    <3> DEFINE one == {<<w, c>>}
               rest == {w} \X u
    <3>5. PairBytes[{w} \X t] = PairBytes[one] + PairBytes[rest]
      <4>1. PairBytes[one \union rest] = PairBytes[one] + PairBytes[rest]
        <5>1. one \in SUBSET AllPairs /\ rest \in SUBSET AllPairs /\ one \intersect rest = {}
          BY <3>4
        <5> HIDE DEF one, rest
        <5> QED
          BY <5>1, PairBytesAdd
      <4> QED
        BY <3>4, <4>1
    <3>6. PairBytes[{<<w, c>>}] = SizeBytes[c]
      BY <3>4, PairBytesAdd
    <3>7. BytesOf(t) = SizeBytes[c] + BytesOf(u)
      BY <3>1, BytesAddUp
    <3>8. PairBytes[{w} \X t] = BytesOf(t)
      <4> HIDE DEF u, B
      <4> QED
        BY <3>3, <3>5, <3>6, <3>7
    <3> QED
      BY <2>1, <3>8
  <2> QED
    BY <2>2, <2>3
<1> QED
  BY <1>1

LEMMA PairBytesOfAll ==
    ASSUME IsFiniteSet(Sweeps), NEW T \in SUBSET Chunks
    PROVE  PairBytes[Workers \X T] = Cardinality(Workers) * BytesOf(T)
<1> DEFINE B == {V \in SUBSET Workers : PairBytes[V \X T] # Cardinality(V) * BytesOf(T)}
<1>0. BytesOf(T) \in Nat
  BY BytesAddUp
<1>1. ASSUME B # {} PROVE FALSE
  <2>1. PICK V \in B : \A U \in B : U \subseteq V => U = V
    <3>1. B \subseteq SUBSET Workers /\ IsFiniteSet(Workers)
      BY PairSizeType
    <3> HIDE DEF B
    <3> QED
      BY <1>1, <3>1, MinimalSubset
  <2>2. CASE V = {}
    <3>1. V \X T = {} /\ Cardinality(V) = 0
      BY <2>2, FS_EmptySet
    <3>2. PairBytes[V \X T] = 0
      BY <3>1, PairBytesAdd
    <3>3. Cardinality(V) * BytesOf(T) = 0
      BY <1>0, <3>1
    <3> QED
      BY <2>1, <3>2, <3>3
  <2>3. CASE V # {}
    <3>1. PICK w \in V : TRUE
      BY <2>3
    <3> DEFINE U == V \ {w}
    <3>2. U \notin B /\ U \in SUBSET Workers /\ w \in Workers
      BY <2>1, <3>1
    <3>3. PairBytes[U \X T] = Cardinality(U) * BytesOf(T)
      BY <3>2
    <3>4. /\ U \X T \in SUBSET AllPairs /\ {w} \X T \in SUBSET AllPairs
          /\ ({w} \X T) \intersect (U \X T) = {}
          /\ V \X T = ({w} \X T) \union (U \X T)
      BY <3>1, <3>2 DEF AllPairs
    <3> DEFINE one == {w} \X T
               rest == U \X T
    <3>5. PairBytes[V \X T] = PairBytes[one] + PairBytes[rest]
      <4>1. PairBytes[one \union rest] = PairBytes[one] + PairBytes[rest]
        <5>1. one \in SUBSET AllPairs /\ rest \in SUBSET AllPairs /\ one \intersect rest = {}
          BY <3>4
        <5> HIDE DEF one, rest
        <5> QED
          BY <5>1, PairBytesAdd
      <4> QED
        BY <3>4, <4>1
    <3>6. PairBytes[{w} \X T] = BytesOf(T)
      BY <3>2, PairBytesOfOne
    <3>7. IsFiniteSet(V) /\ IsFiniteSet(U)
      BY <3>2, PairSizeType, FS_Subset
    <3>8. Cardinality(U) = Cardinality(V) - 1
      BY <3>1, <3>7, FS_RemoveElement
    <3>9. Cardinality(V) \in Nat /\ Cardinality(U) \in Nat
      BY <3>7, FS_CardinalityType
    <3>10. PairBytes[V \X T] = Cardinality(V) * BytesOf(T)
      <4> DEFINE k == Cardinality(U)
                 b == BytesOf(T)
      <4>1. k \in Nat /\ b \in Nat /\ Cardinality(V) = k + 1 /\ PairBytes[V \X T] = b + k * b
        BY <1>0, <3>3, <3>5, <3>6, <3>8, <3>9
      <4>2. (k + 1) * b = b + k * b
        <5> HIDE DEF k, b
        <5> QED
          BY <4>1
      <4> HIDE DEF k, U, B
      <4> QED
        BY <4>1, <4>2
    <3> QED
      BY <2>1, <3>10
  <2> QED
    BY <2>2, <2>3
<1>2. Workers \in SUBSET Workers
  OBVIOUS
<1> QED
  BY <1>1, <1>2

----------------------------------------------------------------------------
(* Without a fault, who could not count before cannot count after a step.  *)

LEMMA TailPlaces ==
    ASSUME NEW S, NEW q \in Seq(S), q # <<>>
    PROVE  /\ q[1] = Head(q) /\ 1 \in 1..Len(q) /\ Len(Tail(q)) = Len(q) - 1
           /\ \A i \in 1..Len(Tail(q)) : i + 1 \in 2..Len(q) /\ Tail(q)[i] = q[i + 1]
<1>1. q[1] = Head(q) /\ Len(q) \in Nat /\ Len(q) >= 1 /\ Len(Tail(q)) = Len(q) - 1
  OBVIOUS
<1>2. \A i \in 1..Len(Tail(q)) : i + 1 \in 2..Len(q)
  BY <1>1
<1>3. \A i \in 1..Len(Tail(q)) : Tail(q)[i] = q[i + 1]
  BY <1>1
<1> QED
  BY <1>1, <1>2, <1>3

LEMMA NoFault ==
    ASSUME IInv, faults' = faults
    PROVE  ~ Fault
  BY BoundAssumption DEF IInv, TypeOK, Fault

\* A worker at its upsert stays there until it has recorded the row.
LEMMA UpsertEnds ==
    ASSUME IInv, [Next]_vars, faults' = faults, NEW v \in Workers, pc[v] = "record"
    PROVE  \/ Record(v)
           \/ pc'[v] = pc[v] /\ todo'[v] = todo[v] /\ targets'[v] = targets[v]
<1> DEFINE Kept == pc'[v] = pc[v] /\ todo'[v] = todo[v] /\ targets'[v] = targets[v]
<1> SUFFICES Record(v) \/ Kept
  OBVIOUS
<1>1. ASSUME NEW e \in Events, Publish(e) \/ PublishFails(e) \/ Deliver(e)
      PROVE  Kept
  BY <1>1, ConsumerIsWorker DEF Publish, PublishFails, Deliver, Goto, copying, IInv, TypeOK
<1>2. ASSUME NEW w \in Workers, CopyStep(w)
      PROVE  Record(v) \/ Kept
  <2>1. ASSUME GiveUp(w) \/ Conclude(w), UNCHANGED targets, pc[w] \in {"pick", "settle"}
        PROVE  Kept
    BY <2>1 DEF GiveUp, Nack, Conclude, Goto, IInv, TypeOK
  <2>2. ASSUME PickNothing(w) \/ Settle(w) PROVE Kept
    BY <2>1, <2>2 DEF PickNothing, Settle
  <2>3. ASSUME Pick(w) \/ Copy(w) \/ Count(w) PROVE Kept
    BY <2>3 DEF Pick, Copy, Count, Goto, copying, IInv, TypeOK
  <2>4. ASSUME Record(w), w # v PROVE Kept
    BY <2>4 DEF Record, NextTarget, Goto, IInv, TypeOK
  <2>5. ~ TargetFails(w)
    BY NoFault DEF TargetFails
  <2> QED
    BY <1>2, <2>2, <2>3, <2>4, <2>5 DEF CopyStep
<1>3. ASSUME NEW s \in Sweeps, SweepStep(s)
      PROVE  Kept
  <2>1. ASSUME SweepStarts(s) \/ ListAtRisk(s) \/ MarkLost(s) \/ ListRows(s) PROVE Kept
    BY <2>1, ConsumerIsWorker DEF SweepStarts, ListAtRisk, MarkLost, ListRows, Goto, copying,
       IInv, TypeOK
  <2>2. ASSUME ListUnderReplicated(s) PROVE Kept
    BY <2>2, ConsumerIsWorker DEF ListUnderReplicated, Goto, copying, IInv, TypeOK
  <2>3. ~ SweepFails(s)
    BY NoFault DEF SweepFails
  <2> QED
    BY <1>3, <2>1, <2>2, <2>3 DEF SweepStep
<1>4. ASSUME NEW n \in Nodes, NodeFails(n) \/ NodeReturns(n)
      PROVE  Kept
  BY <1>4 DEF NodeFails, NodeReturns, copying
<1>5. ~ Crash
  BY NoFault DEF Crash, Halt
<1>6. ASSUME UNCHANGED vars PROVE Kept
  BY <1>6 DEF vars
<1> QED
  BY <1>1, <1>2, <1>3, <1>4, <1>5, <1>6 DEF Next

\* No row is ever removed.
LEMMA RowsStay ==
    ASSUME IInv, [Next]_vars, NEW c \in Chunks, NEW n \in Nodes, replica'[c][n] = "none"
    PROVE  replica[c][n] = "none"
<1>1. ASSUME NEW w \in Workers, Record(w) PROVE replica[c][n] = "none"
  <2>1. Current(w) \in Chunks /\ Target(w) \in Nodes
    BY <1>1, CurrentType DEF Record, IInv
  <2> QED
    BY <1>1, <2>1 DEF Record, IInv, TypeOK
<1>2. ASSUME NEW s \in Sweeps, MarkLost(s) PROVE replica[c][n] = "none"
  <2>1. PICK r \in atRisk[s] : replica' = [replica EXCEPT ![r[1]][r[2]] = "lost"]
    BY <1>2 DEF MarkLost
  <2>2. r \in Chunks \X Nodes
    BY DEF IInv, TypeOK
  <2> QED
    BY <2>1, <2>2 DEF IInv, TypeOK
<1>3. ASSUME ~ (\E w \in Workers : Record(w)), ~ (\E s \in Sweeps : MarkLost(s))
      PROVE  UNCHANGED replica
  BY <1>3 DEF Next, CopyStep, SweepStep, Publish, PublishFails, Deliver, Pick, PickNothing, Copy,
     Count, TargetFails, Settle, SweepStarts, ListAtRisk, ListUnderReplicated, ListRows,
     SweepFails, NodeFails, NodeReturns, Crash, Halt, vars, tables
<1> QED
  BY <1>1, <1>2, <1>3

\* A sweep has counted, or the row is there, for good.
LEMMA NoRowStep ==
    ASSUME IInv, [Next]_vars, faults' = faults,
           NEW v \in Workers, NEW c \in Chunks, NEW n \in Nodes,
           replica'[c][n] = "none", ~ Upserting(v, c, n)'
    PROVE  replica[c][n] = "none" /\ ~ Upserting(v, c, n)
<1>1. replica[c][n] = "none"
  BY RowsStay
<1>2. ASSUME Upserting(v, c, n) PROVE FALSE
  <2>1. pc[v] = "record"
    BY <1>2 DEF Upserting
  <2>2. CASE Record(v)
    <3>1. replica' = [replica EXCEPT ![c][n] = "synced"]
      BY <1>2, <2>2 DEF Upserting, Record
    <3> QED
      BY <3>1 DEF IInv, TypeOK
  <2>3. CASE pc'[v] = pc[v] /\ todo'[v] = todo[v] /\ targets'[v] = targets[v]
    BY <1>2, <2>3 DEF Upserting, Current, Target
  <2> QED
    BY <2>1, <2>2, <2>3, UpsertEnds
<1> QED
  BY <1>1, <1>2

\* The chunks to come are those of messages not yet taken on, and of the current one.
LEMMA ToComeStep ==
    ASSUME IInv, [Next]_vars, faults' = faults, NEW c \in Chunks, ToCome(c)'
    PROVE  ToCome(c)
<1> DEFINE Waiting == {"unpublished", "ready"}
           Same == /\ todo'[Consumer] = todo[Consumer] \/ todo'[Consumer] = <<>>
                   /\ \A e \in Events : event'[e] \in Waiting => event[e] \in Waiting
<1>0. todo[Consumer] \in Seq(Jobs)
  BY ConsumerIsWorker DEF IInv, TypeOK
<1>1. ASSUME Same PROVE ToCome(c)
  BY <1>0, <1>1 DEF ToCome
<1>2. ASSUME NEW e \in Events, Publish(e) PROVE Same
  BY <1>2 DEF Publish, IInv, TypeOK
<1>3. ASSUME NEW e \in Events, Deliver(e) PROVE ToCome(c)
  <2>1. event[e] = "ready" /\ event' = [event EXCEPT ![e] = "unacked"]
    BY <1>3 DEF Deliver
  <2>2. \A f \in Events : event'[f] \in Waiting => event[f] \in Waiting
    BY <2>1 DEF IInv, TypeOK
  <2>3. Batch[e] \in Seq(Chunks) /\ DOMAIN Batch[e] = 1..Len(Batch[e]) /\ Len(Batch[e]) \in Nat
    BY BatchAssumption
  <2>4. todo'[Consumer] = [i \in DOMAIN Batch[e] |->
                             [chunk |-> Batch[e][i], needed |-> ReplicationFactor]]
    BY <1>3, ConsumerIsWorker DEF Deliver, IInv, TypeOK
  <2>5. Len(todo'[Consumer]) = Len(Batch[e])
        /\ \A i \in 1..Len(Batch[e]) : todo'[Consumer][i].chunk = Batch[e][i]
    BY <2>3, <2>4
  <2>6. CASE \E i \in 2..Len(todo'[Consumer]) : todo'[Consumer][i].chunk = c
    BY <2>1, <2>3, <2>5, <2>6 DEF ToCome
  <2>7. CASE \E f \in Events : event'[f] \in Waiting /\ \E i \in 1..Len(Batch[f]) : Batch[f][i] = c
    BY <2>2, <2>7 DEF ToCome
  <2> QED
    BY <2>6, <2>7 DEF ToCome
<1>4. ASSUME NEW w \in Workers, Conclude(w), pc[w] \in {"pick", "settle"} PROVE ToCome(c)
  <2>1. \A f \in Events : event'[f] \in Waiting => event[f] \in Waiting
    BY <1>4 DEF Conclude, SettleEvent
  <2>2. CASE w = Consumer
    <3>1. todo[Consumer] # <<>> /\ todo'[Consumer] = Tail(todo[Consumer])
      BY <1>4, <2>2, ConsumerIsWorker DEF Conclude, IInv, TypeOK, WorkersBusy
    <3>2. \A i \in 1..Len(Tail(todo[Consumer])) :
            i + 1 \in 2..Len(todo[Consumer]) /\ Tail(todo[Consumer])[i] = todo[Consumer][i + 1]
      BY <1>0, <3>1, TailPlaces
    <3>3. \A i \in 2..Len(Tail(todo[Consumer])) : i \in 1..Len(Tail(todo[Consumer]))
      OBVIOUS
    <3>4. CASE \E i \in 2..Len(todo'[Consumer]) : todo'[Consumer][i].chunk = c
      BY <3>1, <3>2, <3>3, <3>4 DEF ToCome
    <3>5. CASE \E f \in Events : event'[f] \in Waiting /\ \E i \in 1..Len(Batch[f]) : Batch[f][i] = c
      BY <2>1, <3>5 DEF ToCome
    <3> QED
      BY <3>4, <3>5 DEF ToCome
  <2>3. CASE w # Consumer
    <3>1. todo'[Consumer] = todo[Consumer]
      BY <1>4, <2>3 DEF Conclude, IInv, TypeOK
    <3> QED
      BY <1>1, <2>1, <3>1
  <2> QED
    BY <2>2, <2>3
<1>5. ASSUME Nack PROVE Same
  BY <1>5, ConsumerIsWorker DEF Nack, SettleEvent, IInv, TypeOK
<1>6. ASSUME NEW w \in Workers, CopyStep(w) PROVE ToCome(c)
  <2>1. ASSUME PickNothing(w) \/ Settle(w) PROVE ToCome(c)
    BY <1>1, <1>4, <1>5, <2>1 DEF PickNothing, Settle, GiveUp
  <2>2. ASSUME Pick(w) \/ Copy(w) \/ Count(w) \/ Record(w) \/ TargetFails(w) PROVE Same
    BY <2>2 DEF Pick, Copy, Count, Record, TargetFails
  <2> QED
    BY <1>1, <1>6, <2>1, <2>2 DEF CopyStep
<1>7. ASSUME NEW s \in Sweeps, SweepStep(s) PROVE Same
  BY <1>7, WorkerAssumption, ConsumerIsWorker DEF SweepStep, SweepStarts, ListAtRisk, MarkLost,
     ListRows, ListUnderReplicated, SweepFails, IInv, TypeOK
<1>8. ASSUME NEW n \in Nodes, NodeFails(n) \/ NodeReturns(n) PROVE Same
  BY <1>8 DEF NodeFails, NodeReturns
<1>9. ASSUME UNCHANGED vars PROVE Same
  BY <1>9 DEF vars
<1>10. ~ Crash /\ \A e \in Events : ~ PublishFails(e)
  BY NoFault DEF Crash, Halt, PublishFails
<1> HIDE DEF Same
<1> QED
  BY <1>1, <1>2, <1>3, <1>6, <1>7, <1>8, <1>9, <1>10 DEF Next

\* A worker aims where it could have counted before: at a node it has chosen, at one
\* without a row, or for a chunk that was to come.
LEMMA AimsStep ==
    ASSUME IInv, [Next]_vars, faults' = faults,
           NEW v \in Workers, NEW c \in Chunks, NEW n \in Nodes, Aims(v, c, n)'
    PROVE  MayCount(v, c, n)
<1>0. todo[v] \in Seq(Jobs) /\ targets[v] \in Seq(Nodes)
  BY DEF IInv, TypeOK
<1>1. ASSUME pc'[v] = pc[v], todo'[v] = todo[v], exclude'[v] = exclude[v], targets'[v] = targets[v]
      PROVE  MayCount(v, c, n)
  BY <1>1 DEF MayCount, Aims, Current
<1>2. ASSUME pc'[v] \notin {"pick", "copy", "count", "record"}
      PROVE  MayCount(v, c, n)
  BY <1>2 DEF Aims
<1>3. ASSUME NEW e \in Events, Publish(e) PROVE MayCount(v, c, n)
  BY <1>1, <1>3 DEF Publish, copying
<1>4. ASSUME NEW e \in Events, Deliver(e) PROVE MayCount(v, c, n)
  <2>1. CASE v = Consumer
    <3>1. Batch[e] \in Seq(Chunks) /\ Batch[e] # <<>>
      BY BatchAssumption
    <3>2. 1 \in 1..Len(Batch[e]) /\ DOMAIN Batch[e] = 1..Len(Batch[e])
      BY <3>1
    <3> DEFINE jobs == [i \in DOMAIN Batch[e] |->
                          [chunk |-> Batch[e][i], needed |-> ReplicationFactor]]
    <3>3. todo'[Consumer] = jobs
      BY <1>4, ConsumerIsWorker DEF Deliver, IInv, TypeOK
    <3>4. Head(jobs).chunk = Batch[e][1]
      BY <3>2
    <3>5. Batch[e][1] = c
      BY <2>1, <3>3, <3>4 DEF Aims, Current
    <3> QED
      BY <1>4, <2>1, <3>2, <3>5 DEF Deliver, MayCount, ToCome
  <2>2. CASE v # Consumer
    BY <1>1, <1>4, <2>2 DEF Deliver, Goto, copying, IInv, TypeOK
  <2> QED
    BY <2>1, <2>2
<1>5. ASSUME Conclude(v), pc[v] \in {"pick", "settle"} PROVE MayCount(v, c, n)
  <2>1. todo[v] # <<>> /\ todo'[v] = Tail(todo[v])
    BY <1>5 DEF Conclude, IInv, TypeOK, WorkersBusy
  <2>2. CASE v = Consumer /\ Tail(todo[v]) # <<>>
    <3>1. Tail(todo[v]) \in Seq(Jobs)
      BY <1>0, <2>1
    <3>2. Tail(todo[v])[1] = Head(Tail(todo[v])) /\ 1 \in 1..Len(Tail(todo[v]))
      BY <2>2, <3>1, TailPlaces
    <3>3. 1 + 1 \in 2..Len(todo[v]) /\ Tail(todo[v])[1] = todo[v][1 + 1]
      BY <1>0, <2>1, <3>2, TailPlaces
    <3>4. todo[v][1 + 1].chunk = c
      BY <2>1, <3>2, <3>3 DEF Aims, Current
    <3> QED
      BY <2>2, <3>3, <3>4 DEF MayCount, ToCome
  <2>3. CASE v # Consumer \/ Tail(todo[v]) = <<>>
    <3>1. pc'[v] \in {"rows", "idle"}
      BY <1>5, <2>3 DEF Conclude, Goto, IInv, TypeOK
    <3> QED
      BY <1>2, <3>1
  <2> QED
    BY <2>2, <2>3
<1>6. ASSUME v = Consumer, Nack PROVE MayCount(v, c, n)
  BY <1>2, <1>6 DEF Nack, Goto, IInv, TypeOK
<1>7. ASSUME CopyStep(v) PROVE MayCount(v, c, n)
  <2>1. ASSUME PickNothing(v) \/ Settle(v) PROVE MayCount(v, c, n)
    BY <1>5, <1>6, <2>1 DEF PickNothing, Settle, GiveUp
  <2>2. ASSUME Pick(v) PROVE MayCount(v, c, n)
    <3>1. todo[v] # <<>> /\ Head(todo[v]) \in Jobs
      BY <1>0, <2>2 DEF IInv, WorkersBusy, Pick
    <3>2. Head(todo[v]).needed \in Nat
      BY <3>1, BoundAssumption DEF Jobs
    <3>3. PICK q \in LeastUsed(Eligible(v), Head(todo[v]).needed) :
              targets' = [targets EXCEPT ![v] = q]
      BY <2>2 DEF Pick
    <3>4. q \in Seq(Eligible(v))
      BY <3>2, LeastUsedType
    <3>5. pc'[v] = "copy" /\ targets'[v] = q /\ todo'[v] = todo[v]
      BY <2>2, <3>3 DEF Pick, Goto, IInv, TypeOK
    <3>6. n \in Eligible(v)
      BY <3>4, <3>5 DEF Aims
    <3> QED
      BY <2>2, <3>5, <3>6 DEF MayCount, Aims, Current, Eligible, Pick
  <2>3. ASSUME Copy(v) \/ Count(v) PROVE MayCount(v, c, n)
    <3>1. /\ pc[v] \in {"copy", "count"} /\ pc'[v] \in {"count", "record"}
          /\ todo'[v] = todo[v] /\ targets'[v] = targets[v]
      BY <2>3 DEF Copy, Count, Goto, copying, IInv, TypeOK
    <3>2. \A i \in 2..Len(targets[v]) : i \in 1..Len(targets[v])
      OBVIOUS
    <3> QED
      BY <3>1, <3>2 DEF MayCount, Aims, Current
  <2>4. ASSUME Record(v) PROVE MayCount(v, c, n)
    <3>1. /\ pc[v] = "record" /\ pc'[v] \in {"settle", "copy"}
          /\ todo'[v] = todo[v] /\ targets[v] # <<>> /\ targets'[v] = Tail(targets[v])
      BY <2>4 DEF Record, NextTarget, Goto, IInv, TypeOK, WorkersBusy
    <3>2. \A i \in 1..Len(Tail(targets[v])) :
            i + 1 \in 2..Len(targets[v]) /\ Tail(targets[v])[i] = targets[v][i + 1]
      BY <1>0, <3>1, TailPlaces
    <3>3. PICK i \in 1..Len(Tail(targets[v])) : Tail(targets[v])[i] = n
      BY <3>1 DEF Aims
    <3>4. i + 1 \in 2..Len(targets[v]) /\ targets[v][i + 1] = n
      BY <3>2, <3>3
    <3> QED
      BY <3>1, <3>4 DEF MayCount, Aims, Current
  <2>5. ~ TargetFails(v)
    BY NoFault DEF TargetFails
  <2> QED
    BY <1>7, <2>1, <2>2, <2>3, <2>4, <2>5 DEF CopyStep
<1>8. ASSUME NEW w \in Workers, w # v, CopyStep(w) PROVE MayCount(v, c, n)
  <2> DEFINE Same == /\ pc'[v] = pc[v] /\ todo'[v] = todo[v]
                     /\ exclude'[v] = exclude[v] /\ targets'[v] = targets[v]
  <2>1. ASSUME GiveUp(w) \/ Conclude(w), UNCHANGED targets PROVE Same
    BY <1>8, <2>1 DEF GiveUp, Nack, Conclude, Goto, IInv, TypeOK
  <2>2. ASSUME PickNothing(w) \/ Settle(w) PROVE Same
    BY <2>1, <2>2 DEF PickNothing, Settle
  <2>3. ASSUME Pick(w) \/ Copy(w) \/ Count(w) PROVE Same
    BY <1>8, <2>3 DEF Pick, Copy, Count, Goto, copying, IInv, TypeOK
  <2>4. ASSUME Record(w) \/ TargetFails(w) PROVE Same
    BY <1>8, <2>4 DEF Record, TargetFails, NextTarget, Goto, IInv, TypeOK
  <2> QED
    BY <1>1, <1>8, <2>2, <2>3, <2>4 DEF CopyStep
<1>9. ASSUME NEW s \in Sweeps, SweepStep(s) PROVE MayCount(v, c, n)
  <2>1. CASE v # s
    <3>1. /\ pc'[v] = pc[v] /\ todo'[v] = todo[v]
          /\ exclude'[v] = exclude[v] /\ targets'[v] = targets[v]
      BY <1>9, <2>1, ConsumerIsWorker DEF SweepStep, SweepStarts, ListAtRisk, MarkLost, ListRows,
         ListUnderReplicated, SweepFails, Goto, copying, IInv, TypeOK
    <3> QED
      BY <1>1, <3>1
  <2>2. CASE v = s /\ ListRows(s)
    <3>1. pc'[v] = "pick" /\ pc[v] = "rows" /\ exclude'[v] = HasRow(Current(v)) /\ UNCHANGED todo
      BY <2>2 DEF ListRows, Goto, IInv, TypeOK
    <3>2. Current(v) = c /\ n \notin HasRow(c)
      BY <3>1 DEF Aims, Current
    <3>3. replica[c][n] = "none" /\ ~ Upserting(v, c, n)
      BY <3>1, <3>2 DEF HasRow, Upserting
    <3> QED
      BY <2>2, <3>3, WorkerAssumption DEF MayCount
  <2>3. CASE v = s /\ ~ ListRows(s)
    <3>1. pc'[v] \in {"scan", "atRisk", "mark", "rows", "idle"}
      BY <1>9, <2>3 DEF SweepStep, SweepStarts, ListAtRisk, MarkLost, ListUnderReplicated,
         SweepFails, Goto, IInv, TypeOK
    <3> QED
      BY <1>2, <3>1
  <2> QED
    BY <2>1, <2>2, <2>3
<1>10. ASSUME NEW m \in Nodes, NodeReturns(m) PROVE MayCount(v, c, n)
  BY <1>1, <1>10 DEF NodeReturns, copying
<1>11. ASSUME UNCHANGED vars PROVE MayCount(v, c, n)
  BY <1>1, <1>11 DEF vars
<1>12. ~ Crash /\ (\A e \in Events : ~ PublishFails(e)) /\ \A m \in Nodes : ~ NodeFails(m)
  BY NoFault DEF Crash, Halt, PublishFails, NodeFails
<1> QED
  BY <1>3, <1>4, <1>7, <1>8, <1>9, <1>10, <1>11, <1>12 DEF Next

LEMMA MayCountStep ==
    ASSUME IInv, [Next]_vars, faults' = faults,
           NEW v \in Workers, NEW c \in Chunks, NEW n \in Nodes, MayCount(v, c, n)'
    PROVE  MayCount(v, c, n)
<1>1. CASE Aims(v, c, n)'
  BY <1>1, AimsStep
<1>2. CASE v = Consumer /\ ToCome(c)'
  BY <1>2, ToComeStep DEF MayCount
<1>3. CASE v # Consumer /\ replica'[c][n] = "none" /\ ~ Upserting(v, c, n)'
  BY <1>3, NoRowStep DEF MayCount
<1> QED
  BY <1>1, <1>2, <1>3 DEF MayCount

\* The chosen nodes differ, and stay so as they are worked off.
LEMMA DifferStep ==
    ASSUME IInv, TargetsDiffer, [Next]_vars
    PROVE  TargetsDiffer'
<1> SUFFICES ASSUME NEW v \in Workers,
                    NEW i \in 1..Len(targets'[v]), NEW j \in 1..Len(targets'[v]),
                    targets'[v][i] = targets'[v][j]
             PROVE  i = j
  BY DEF TargetsDiffer
<1>1. CASE targets'[v] = targets[v]
  BY <1>1 DEF TargetsDiffer
<1>2. CASE targets'[v] = <<>>
  BY <1>2
<1>3. CASE pc[v] \in {"copy", "count", "record"} /\ targets'[v] = Tail(targets[v])
  <2>1. targets[v] \in Seq(Nodes) /\ targets[v] # <<>>
    BY <1>3 DEF IInv, TypeOK, WorkersBusy
  <2>2. \A k \in 1..Len(Tail(targets[v])) :
            k + 1 \in 2..Len(targets[v]) /\ Tail(targets[v])[k] = targets[v][k + 1]
    BY <2>1, TailPlaces
  <2>3. \A k \in 2..Len(targets[v]) : k \in 1..Len(targets[v])
    OBVIOUS
  <2>4. i + 1 = j + 1
    BY <1>3, <2>2, <2>3 DEF TargetsDiffer
  <2> QED
    BY <2>4
<1>4. CASE Pick(v)
  <2>1. PICK q \in LeastUsed(Eligible(v), Head(todo[v]).needed) :
              targets' = [targets EXCEPT ![v] = q]
    BY <1>4 DEF Pick
  <2>2. targets'[v] = q /\ IsInjective(q)
    BY <2>1 DEF LeastUsed, IInv, TypeOK
  <2>3. todo[v] \in Seq(Jobs) /\ todo[v] # <<>>
    BY <1>4 DEF IInv, TypeOK, WorkersBusy, Pick
  <2>4. Head(todo[v]) \in Jobs
    BY <2>3
  <2>5. Head(todo[v]).needed \in Nat
    BY <2>4, BoundAssumption DEF Jobs
  <2>6. DOMAIN q = 1..Len(q)
    BY <2>5, LeastUsedType
  <2> QED
    BY <2>2, <2>6 DEF IsInjective
<1>5. ASSUME NEW w \in Workers, CopyStep(w)
      PROVE  \/ targets'[v] = targets[v]
             \/ Pick(v)
             \/ pc[v] \in {"copy", "count", "record"} /\ targets'[v] = Tail(targets[v])
  <2>1. ASSUME PickNothing(w) \/ Settle(w) \/ Copy(w) \/ Count(w) PROVE targets'[v] = targets[v]
    BY <2>1 DEF PickNothing, Settle, Copy, Count, copying
  <2>2. ASSUME Pick(w), v # w PROVE targets'[v] = targets[v]
    BY <2>2 DEF Pick, IInv, TypeOK
  <2>3. ASSUME Record(w) \/ TargetFails(w), v # w PROVE targets'[v] = targets[v]
    BY <2>3 DEF Record, TargetFails, NextTarget, IInv, TypeOK
  <2>4. ASSUME Record(w) \/ TargetFails(w), v = w
        PROVE  pc[v] \in {"copy", "count", "record"} /\ targets'[v] = Tail(targets[v])
    BY <2>4 DEF Record, TargetFails, NextTarget, IInv, TypeOK
  <2> QED
    BY <1>5, <2>1, <2>2, <2>3, <2>4 DEF CopyStep
<1>6. ASSUME ~ \E w \in Workers : CopyStep(w)
      PROVE  targets'[v] = targets[v] \/ targets'[v] = <<>>
  BY <1>6 DEF Next, SweepStep, Publish, PublishFails, Deliver, SweepStarts, ListAtRisk, MarkLost,
     ListUnderReplicated, ListRows, SweepFails, NodeFails, NodeReturns, Crash, Halt, vars, copying
<1> QED
  BY <1>1, <1>2, <1>3, <1>4, <1>5, <1>6

\* Counting closes one pair of worker and chunk.
LEMMA CountCloses ==
    ASSUME IInv, TrackInv, TargetsDiffer, NEW w \in Workers, Count(w),
           NEW c \in Chunks, NEW n \in Nodes, Current(w) = c, Target(w) = n
    PROVE  MayCount(w, c, n) /\ ~ MayCount(w, c, n)'
<1>1. pc[w] = "count" /\ pc'[w] = "record" /\ UNCHANGED <<todo, targets, event, replica>>
  BY DEF Count, Goto, copying, IInv, TypeOK
<1>2. targets[w] \in Seq(Nodes) /\ targets[w] # <<>>
  BY <1>1 DEF IInv, TypeOK, WorkersBusy
<1>3. targets[w][1] = n /\ 1 \in 1..Len(targets[w])
  BY <1>2, TailPlaces DEF Target
<1>4. MayCount(w, c, n)
  BY <1>1, <1>3 DEF MayCount, Aims
<1>5. ~ Aims(w, c, n)'
  <2>1. ASSUME NEW i \in 2..Len(targets[w]), targets[w][i] = n PROVE FALSE
    <3>1. i \in 1..Len(targets[w]) /\ i # 1
      OBVIOUS
    <3> QED
      BY <1>3, <2>1, <3>1 DEF TargetsDiffer
  <2> QED
    BY <1>1, <2>1 DEF Aims
<1>6. ASSUME w = Consumer, ToCome(c)' PROVE FALSE
  <2>1. ToCome(c)
    BY <1>1, <1>6 DEF ToCome
  <2>2. PICK e \in Events : Handling(e)
    BY <1>1, <1>6 DEF TrackInv, ConsumerInTurn
  <2>3. todo[Consumer] \in Seq(Jobs) /\ todo[Consumer] # <<>>
    BY <1>1, <1>6 DEF IInv, TypeOK, WorkersBusy
  <2> DEFINE len == Len(todo[Consumer])
             all == Len(Batch[e])
             done == all - len
  <2>4. len \in Nat /\ all \in Nat /\ 1 \in 1..len /\ todo[Consumer][1] = Head(todo[Consumer])
    BY <2>3, TailPlaces, BatchAssumption
  <2>5. done >= 0 /\ \A i \in 1..len : todo[Consumer][i].chunk = Batch[e][done + i]
    BY <2>2 DEF Handling
  <2>6. event[e] = "unacked"
    BY <2>2 DEF Handling
  <2>7. todo[Consumer][1].chunk = c
    BY <1>6, <2>4 DEF Current
  <2> HIDE DEF len, all
  <2>8. \A i \in 1..len : done + i \in 1..all
    BY <2>4, <2>5
  <2>9. \A i \in 2..len : i \in 1..len /\ done + i # done + 1
    BY <2>4, <2>5
  <2> HIDE DEF done
  <2>10. done + 1 \in 1..all /\ Batch[e][done + 1] = c
    BY <2>4, <2>5, <2>7, <2>8
  <2>11. ASSUME NEW i \in 2..len, todo[Consumer][i].chunk = c PROVE FALSE
    <3>1. done + i \in 1..all /\ done + i # done + 1 /\ Batch[e][done + i] = c
      BY <2>5, <2>8, <2>9, <2>11
    <3> QED
      BY <2>10, <3>1, ChunkAssumption DEF all
  <2>12. ASSUME NEW f \in Events, event[f] \in {"unpublished", "ready"},
                NEW i \in 1..Len(Batch[f]), Batch[f][i] = c
         PROVE  FALSE
    <3>1. f = e
      BY <2>10, <2>12, ChunkAssumption DEF all
    <3> QED
      BY <2>6, <2>12, <3>1
  <2> QED
    BY <2>1, <2>11, <2>12 DEF ToCome, len
<1>7. Upserting(w, c, n)'
  BY <1>1 DEF Upserting, Current, Target
<1>8. ~ MayCount(w, c, n)'
  BY <1>5, <1>6, <1>7 DEF MayCount
<1> QED
  BY <1>4, <1>8

----------------------------------------------------------------------------
(* The bound.                                                              *)

\* A step counts, or copies, or fails, and does no two of these.
LEMMA DriftMoves ==
    ASSUME IInv, [Next]_vars
    PROVE  /\ faults' \in {faults, faults + 1}
           /\ faults' # faults => UNCHANGED <<usedBytes, bucket>>
           /\ \A n \in Nodes : bucket[n] \subseteq bucket'[n]
           /\ (\E w \in Workers : Count(w)) => UNCHANGED bucket
<1> USE DEF tables, copying, marking
<1> DEFINE Still == UNCHANGED <<usedBytes, bucket>> /\ faults' \in {faults, faults + 1}
           Moves == /\ faults' = faults
                    /\ \A n \in Nodes : bucket[n] \subseteq bucket'[n]
<1>1. ASSUME NEW e \in Events, Publish(e) \/ PublishFails(e) \/ Deliver(e) PROVE Still
  BY <1>1 DEF Publish, PublishFails, Deliver, Fault
<1>2. ASSUME NEW w \in Workers, Pick(w) \/ PickNothing(w) \/ Record(w) \/ TargetFails(w) \/ Settle(w)
      PROVE  Still
  BY <1>2 DEF Pick, PickNothing, Record, TargetFails, Settle, Fault
<1>3. ASSUME NEW w \in Workers, Copy(w) PROVE Moves /\ UNCHANGED usedBytes
  BY <1>3 DEF Copy, IInv, TypeOK
<1>4. ASSUME NEW w \in Workers, Count(w) PROVE Moves /\ UNCHANGED bucket
  BY <1>4 DEF Count
<1>5. ASSUME NEW s \in Sweeps, SweepStep(s) PROVE Still
  BY <1>5 DEF SweepStep, SweepStarts, ListAtRisk, MarkLost, ListRows, ListUnderReplicated,
     SweepFails, Fault
<1>6. ASSUME NEW n \in Nodes, NodeFails(n) \/ NodeReturns(n) PROVE Still
  BY <1>6 DEF NodeFails, NodeReturns, Fault
<1>7. ASSUME Crash PROVE Still
  BY <1>7 DEF Crash, Halt, Fault
<1>8. ASSUME UNCHANGED vars PROVE Still
  BY <1>8 DEF vars
<1>9. Still \/ Moves
  BY <1>1, <1>2, <1>3, <1>4, <1>5, <1>6, <1>7, <1>8 DEF Next, CopyStep
<1> QED
  BY <1>4, <1>9

\* The arithmetic of a step: k is what the pairs allow, o what may still be counted.
LEMMA BudgetSteps ==
    ASSUME NEW f \in Nat, NEW u \in Nat, NEW o \in Nat, NEW p \in Nat, NEW d \in Nat,
           NEW q \in Nat, u + o <= (1 + f) * p
    PROVE  /\ q <= o + d => u + q <= (1 + f) * (p + d)
           /\ q <= p => u + q <= (1 + (f + 1)) * p
           /\ d + q <= o => (u + d) + q <= (1 + f) * p
<1>1. (1 + f) * (p + d) = (1 + f) * p + (1 + f) * d /\ (1 + f) * d = d + f * d /\ f * d \in Nat
  OBVIOUS
<1>2. (1 + (f + 1)) * p = (1 + f) * p + p
  OBVIOUS
<1>3. (1 + f) * p \in Nat /\ (1 + f) * d \in Nat
  OBVIOUS
<1>4. q <= o + d => u + q <= (1 + f) * (p + d)
  BY <1>1, <1>3
<1>5. q <= p => u + q <= (1 + (f + 1)) * p
  BY <1>2, <1>3
<1>6. d + q <= o => (u + d) + q <= (1 + f) * p
  BY <1>3
<1> QED
  BY <1>4, <1>5, <1>6

LEMMA PairsType ==
    /\ \A n \in Nodes : Pairs(n) \in SUBSET AllPairs /\ OpenPairs(n) \in SUBSET Pairs(n)
    /\ \A n \in Nodes : Pairs(n)' \in SUBSET AllPairs /\ OpenPairs(n)' \in SUBSET Pairs(n)'
  BY DEF Pairs, OpenPairs, AllPairs

LEMMA DriftStep ==
    ASSUME IsFiniteSet(Sweeps), IInv, TrackInv, TargetsDiffer, DriftBounded, [Next]_vars
    PROVE  DriftBounded'
<1> SUFFICES ASSUME NEW n \in Nodes
             PROVE  usedBytes'[n] + PairBytes[OpenPairs(n)'] <= (1 + faults') * PairBytes[Pairs(n)']
  BY DEF DriftBounded
<1> DEFINE P == Pairs(n)
           Q == Pairs(n)'
           O == OpenPairs(n)
           N == OpenPairs(n)'
<1>1. /\ P \in SUBSET AllPairs /\ O \in SUBSET P /\ Q \in SUBSET AllPairs /\ N \in SUBSET Q
      /\ O \in SUBSET AllPairs /\ N \in SUBSET AllPairs
  BY PairsType
<1>2. P \subseteq Q
  BY DriftMoves DEF Pairs
<1>3. UNCHANGED bucket => Q = P
  BY DEF Pairs
<1>4. faults' = faults => \A p \in N : p \in P => p \in O
  <2> SUFFICES ASSUME faults' = faults, NEW p \in N, p \in P PROVE p \in O
    OBVIOUS
  <2>1. p[1] \in Workers /\ p[2] \in Chunks
    BY DEF Pairs
  <2>2. MayCount(p[1], p[2], n)'
    BY DEF OpenPairs
  <2>3. MayCount(p[1], p[2], n)
    BY <2>1, <2>2, MayCountStep
  <2> QED
    BY <2>3 DEF OpenPairs
<1>5. ASSUME NEW w \in Workers, Count(w), Target(w) = n
      PROVE  /\ <<w, Current(w)>> \in O
             /\ ~ (<<w, Current(w)>> \in N)
  <2>1. PICK c \in Chunks : Current(w) = c
    BY <1>5, CurrentType DEF Count, IInv
  <2>2. StorageKey[c] \in bucket[n]
    BY <1>5, <2>1 DEF IInv, CopiedIsStored, Count
  <2>3. MayCount(w, c, n) /\ ~ MayCount(w, c, n)'
    BY <1>5, <2>1, CountCloses
  <2> QED
    BY <2>1, <2>2, <2>3 DEF OpenPairs, Pairs
<1>6. /\ faults \in Nat /\ usedBytes[n] \in Nat
      /\ usedBytes[n] + PairBytes[O] <= (1 + faults) * PairBytes[P]
  BY DEF IInv, TypeOK, DriftBounded
<1>7. PairBytes[P] \in Nat /\ PairBytes[Q] \in Nat /\ PairBytes[O] \in Nat /\ PairBytes[N] \in Nat
      /\ PairBytes[Q \ P] \in Nat
  <2>1. Q \ P \in SUBSET AllPairs
    BY <1>1
  <2> HIDE DEF P, Q, O, N
  <2> QED
    BY <1>1, <2>1, PairBytesAdd
<1>8. PairBytes[Q] = PairBytes[P] + PairBytes[Q \ P]
  <2> HIDE DEF P, Q, O, N
  <2> QED
    BY <1>1, <1>2, PairBytesAdd
<1> HIDE DEF P, Q, O, N
<1>9. CASE faults' # faults
  <2>1. faults' = faults + 1 /\ usedBytes' = usedBytes /\ Q = P
    BY <1>3, <1>9, DriftMoves
  <2>2. PairBytes[P] = PairBytes[N] + PairBytes[P \ N] /\ PairBytes[P \ N] \in Nat
    BY <1>1, <2>1, PairBytesAdd
  <2>3. PairBytes[N] <= PairBytes[P]
    BY <1>7, <2>2
  <2>4. usedBytes[n] + PairBytes[N] <= (1 + (faults + 1)) * PairBytes[P]
    BY <1>6, <1>7, <2>3, BudgetSteps
  <2> QED
    BY <2>1, <2>4 DEF N, Q
<1>10. CASE faults' = faults /\ usedBytes'[n] = usedBytes[n]
  <2>1. N \subseteq O \union (Q \ P)
    BY <1>1, <1>4, <1>10
  <2>2. O \intersect (Q \ P) = {} /\ O \union (Q \ P) \in SUBSET AllPairs /\ Q \ P \in SUBSET AllPairs
    BY <1>1
  <2>3. PairBytes[O \union (Q \ P)] = PairBytes[O] + PairBytes[Q \ P]
    BY <1>1, <2>2, PairBytesAdd
  <2> DEFINE big == O \union (Q \ P)
  <2>4. PairBytes[big] = PairBytes[N] + PairBytes[big \ N] /\ PairBytes[big \ N] \in Nat
    <3>1. big \in SUBSET AllPairs /\ N \subseteq big /\ big \ N \in SUBSET AllPairs
      BY <2>1, <2>2
    <3> HIDE DEF big
    <3> QED
      BY <1>1, <3>1, PairBytesAdd
  <2>5. PairBytes[N] <= PairBytes[O] + PairBytes[Q \ P]
    <3>1. PairBytes[big] = PairBytes[O] + PairBytes[Q \ P]
      BY <2>3
    <3> HIDE DEF big
    <3> QED
      BY <1>7, <2>4, <3>1
  <2>6. usedBytes[n] + PairBytes[N] <= (1 + faults) * (PairBytes[P] + PairBytes[Q \ P])
    BY <1>6, <1>7, <2>5, BudgetSteps
  <2> QED
    BY <1>8, <1>10, <2>6 DEF N, Q
<1>11. CASE \E w \in Workers : Count(w) /\ Target(w) = n
  <2>1. PICK w \in Workers : Count(w) /\ Target(w) = n
    BY <1>11
  <2>2. Current(w) \in Chunks
    BY <2>1, CurrentType DEF Count, IInv
  <2> DEFINE s == SizeBytes[Current(w)]
             p == <<w, Current(w)>>
  <2>3. usedBytes'[n] = usedBytes[n] + s /\ faults' = faults /\ Q = P
    <3>1. usedBytes' = [usedBytes EXCEPT ![Target(w)] = @ + SizeBytes[Current(w)]]
          /\ UNCHANGED <<bucket, faults>>
      BY <2>1 DEF Count
    <3> QED
      BY <1>3, <2>1, <3>1 DEF IInv, TypeOK
  <2>4. p \in O /\ p \notin N
    BY <1>5, <2>1
  <2>5. N \subseteq O
    BY <1>1, <1>4, <2>3
  <2>6. s \in Nat /\ p \in AllPairs /\ p[2] = Current(w)
    BY <2>2, SizeAssumption DEF AllPairs
  <2>7. PairBytes[{p}] = s
    BY <2>6, PairBytesAdd
  <2> HIDE DEF s, p
  <2>8. N \union {p} \in SUBSET AllPairs /\ {p} \in SUBSET AllPairs /\ N \intersect {p} = {}
        /\ N \union {p} \subseteq O
    BY <1>1, <2>4, <2>5, <2>6
  <2>9. PairBytes[N \union {p}] = PairBytes[N] + s
    BY <1>1, <2>7, <2>8, PairBytesAdd
  <2> DEFINE both == N \union {p}
  <2>10. PairBytes[O] = PairBytes[both] + PairBytes[O \ both] /\ PairBytes[O \ both] \in Nat
    <3>1. both \in SUBSET AllPairs /\ both \subseteq O /\ O \ both \in SUBSET AllPairs
      BY <1>1, <2>8
    <3> HIDE DEF both
    <3> QED
      BY <1>1, <3>1, PairBytesAdd
  <2>11. s + PairBytes[N] <= PairBytes[O]
    <3>1. PairBytes[both] = PairBytes[N] + s
      BY <2>9
    <3> HIDE DEF both
    <3> QED
      BY <1>7, <2>6, <2>10, <3>1
  <2>12. (usedBytes[n] + s) + PairBytes[N] <= (1 + faults) * PairBytes[P]
    BY <1>6, <1>7, <2>6, <2>11, BudgetSteps
  <2> QED
    BY <2>3, <2>12 DEF N, Q
<1>12. ASSUME ~ \E w \in Workers : Count(w) /\ Target(w) = n
       PROVE  usedBytes'[n] = usedBytes[n]
  <2>1. CASE \E w \in Workers : Count(w)
    <3>1. PICK w \in Workers : Count(w)
      BY <2>1
    <3>2. Target(w) # n
      BY <1>12, <3>1
    <3> QED
      BY <3>1, <3>2 DEF Count, IInv, TypeOK
  <2>2. CASE ~ \E w \in Workers : Count(w)
    BY <2>2, UpsertStep
  <2> QED
    BY <2>1, <2>2
<1> QED
  BY <1>9, <1>10, <1>11, <1>12

\* used_bytes drifts upwards by a bounded amount: each worker counts the bytes of a chunk
\* on a node once, and once more for each fault, however often sweeps try again.
THEOREM UsedBytesDriftBounded ==
    ASSUME IsFiniteSet(Sweeps)
    PROVE  Spec => []UsedBytesAreBounded
<1>1. Init => TargetsDiffer /\ DriftBounded
  <2> SUFFICES ASSUME Init PROVE TargetsDiffer /\ DriftBounded
    OBVIOUS
  <2>1. TargetsDiffer
    BY DEF Init, TargetsDiffer
  <2>2. ASSUME NEW n \in Nodes
        PROVE  usedBytes[n] + PairBytes[OpenPairs(n)] <= (1 + faults) * PairBytes[Pairs(n)]
    <3>1. Pairs(n) = {} /\ OpenPairs(n) = {} /\ usedBytes[n] = 0 /\ faults = 0
      BY <2>2 DEF Init, Pairs, OpenPairs
    <3>2. PairBytes[{}] = 0
      BY PairBytesAdd
    <3>3. PairBytes[OpenPairs(n)] = 0 /\ PairBytes[Pairs(n)] = 0
      BY <3>1, <3>2
    <3> QED
      BY <3>1, <3>3
  <2> QED
    BY <2>1, <2>2 DEF DriftBounded
<1>2. IInv /\ TrackInv /\ TargetsDiffer /\ DriftBounded /\ [Next]_vars => TargetsDiffer' /\ DriftBounded'
  BY DifferStep, DriftStep
<1>3. IInv /\ DriftBounded => UsedBytesAreBounded
  <2> SUFFICES ASSUME IInv, DriftBounded, NEW n \in Nodes
               PROVE  usedBytes[n] <= (1 + faults) * Cardinality(Workers)
                            * BytesOf({c \in Chunks : StorageKey[c] \in bucket[n]})
    BY DEF UsedBytesAreBounded
  <2> DEFINE T == {c \in Chunks : StorageKey[c] \in bucket[n]}
  <2>1. T \in SUBSET Chunks /\ Pairs(n) = Workers \X T
    BY DEF Pairs
  <2>2. BytesOf(T) \in Nat /\ Cardinality(Workers) \in Nat
    BY <2>1, BytesAddUp, PairSizeType, FS_CardinalityType
  <2>3. PairBytes[Pairs(n)] = Cardinality(Workers) * BytesOf(T)
    <3> HIDE DEF T
    <3> QED
      BY <2>1, PairBytesOfAll
  <2>4. PairBytes[OpenPairs(n)] \in Nat
    <3>1. OpenPairs(n) \in SUBSET AllPairs
      BY PairsType
    <3> QED
      BY <3>1, PairBytesAdd
  <2>5. usedBytes[n] \in Nat /\ faults \in Nat
        /\ usedBytes[n] + PairBytes[OpenPairs(n)] <= (1 + faults) * PairBytes[Pairs(n)]
    BY DEF IInv, TypeOK, DriftBounded
  <2> HIDE DEF T
  <2>6. usedBytes[n] <= (1 + faults) * (Cardinality(Workers) * BytesOf(T))
    <3> DEFINE k == (1 + faults) * (Cardinality(Workers) * BytesOf(T))
    <3>1. k \in Int /\ usedBytes[n] + PairBytes[OpenPairs(n)] <= k
      BY <2>2, <2>3, <2>5
    <3> HIDE DEF k
    <3>2. usedBytes[n] <= k
      BY <2>4, <2>5, <3>1
    <3> QED
      BY <3>2 DEF k
  <2>7. \A i, j, k \in Nat : i * (j * k) = i * j * k
    OBVIOUS
  <2>8. usedBytes[n] <= (1 + faults) * Cardinality(Workers) * BytesOf(T)
    BY <2>2, <2>5, <2>6, <2>7
  <2> QED
    BY <2>8 DEF T
<1> QED
  BY <1>1, <1>2, <1>3, TrackInductive, PTL DEF Spec
============================================================================
