------------------------- MODULE Replication_proofs -------------------------
(***************************************************************************)
(* Proofs about Replication, for every set of nodes, chunks, events and    *)
(* sweeps and every replication factor.                                    *)
(***************************************************************************)
EXTENDS Replication, FiniteSetTheorems, WellFoundedInduction, TLAPS

\* A worker in the middle of a chunk has a current chunk, and one in the middle of
\* a target a current node.
WorkersBusy ==
    \A w \in Workers :
        /\ pc[w] \in {"pick", "copy", "count", "record", "settle", "rows"} => todo[w] # <<>>
        /\ pc[w] \in {"copy", "count", "record"} => targets[w] # <<>>

\* Between the copy and the upsert the bytes are already on the target.
CopiedIsStored ==
    \A w \in Workers :
        pc[w] \in {"count", "record"} => StorageKey[Current(w)] \in bucket[Target(w)]

\* A sweep marks only rows that exist.
AtRiskHasRow ==
    \A s \in Sweeps : \A r \in atRisk[s] : replica[r[1]][r[2]] # "none"

IInv == TypeOK /\ WorkersBusy /\ CopiedIsStored /\ AtRiskHasRow /\ RowIsStored

----------------------------------------------------------------------------
(* Lemmas about the queries.                                               *)

\* The chosen targets are a sequence of the candidates.
LEMMA LeastUsedType ==
    ASSUME NEW S, NEW k \in Nat, NEW q \in LeastUsed(S, k)
    PROVE  /\ q \in Seq(S)
           /\ k > 0 /\ S # {} => q # <<>>
<1>1. PICK m \in 0..k : q \in [1..m -> S]
  BY DEF LeastUsed
<1>2. q \in Seq(S) /\ Len(q) = m /\ DOMAIN q = 1..m
  BY <1>1
<1>3. ASSUME k > 0, S # {}, q = <<>>
      PROVE FALSE
  <2>1. Range(q) = {}
    BY <1>2, <1>3 DEF Range
  <2>2. Len(q) = k \/ Range(q) = S
    BY DEF LeastUsed
  <2> QED
    BY <1>2, <1>3, <2>1, <2>2
<1> QED
  BY <1>2, <1>3

\* A listing of a finite set is a sequence of its elements.
LEMMA ListingsType ==
    ASSUME NEW S, IsFiniteSet(S), NEW q \in Listings(S)
    PROVE  q \in Seq(S) /\ \A i \in DOMAIN q : q[i] \in S
<1>1. Cardinality(S) \in Nat
  BY FS_CardinalityType
<1> QED
  BY <1>1 DEF Listings

\* The number of synced replicas of a chunk is a natural number.
LEMMA SyncedCount ==
    ASSUME NEW c \in Chunks
    PROVE  Cardinality(Synced(c)) \in Nat
<1>1. IsFiniteSet(Synced(c))
  BY FS_Subset, FiniteAssumption DEF Synced
<1> QED
  BY <1>1, FS_CardinalityType

\* A fault stays within the bound.
LEMMA FaultType ==
    ASSUME faults \in 0..MaxFaults, Fault
    PROVE  faults' \in 0..MaxFaults
  BY BoundAssumption DEF Fault

\* The current chunk and node of a worker are a chunk and a node.
LEMMA CurrentType ==
    ASSUME TypeOK, WorkersBusy, NEW w \in Workers, pc[w] \in {"copy", "count", "record"}
    PROVE  Current(w) \in Chunks /\ Target(w) \in Nodes
<1>1. todo[w] \in Seq(Jobs) /\ todo[w] # <<>>
  BY DEF TypeOK, WorkersBusy
<1>2. Head(todo[w]) \in Jobs
  BY <1>1
<1>3. targets[w] \in Seq(Nodes) /\ targets[w] # <<>>
  BY DEF TypeOK, WorkersBusy
<1>4. Head(targets[w]) \in Nodes
  BY <1>3
<1> QED
  BY <1>2, <1>4 DEF Current, Target, Jobs

----------------------------------------------------------------------------
LEMMA InitIInv == Init => IInv
  BY BoundAssumption DEF Init, IInv, TypeOK, WorkersBusy, CopiedIsStored, AtRiskHasRow,
     RowIsStored, HasRow, Statuses, EventStates, Jobs

LEMMA PickIInv == ASSUME IInv, NEW w \in Workers, Pick(w) PROVE IInv'
<1> USE DEF IInv
<1>1. todo[w] # <<>> /\ Head(todo[w]) \in Jobs
  BY DEF TypeOK, WorkersBusy, Pick
<1>2. Head(todo[w]).needed \in Nat /\ Head(todo[w]).needed > 0
  BY <1>1, BoundAssumption DEF Jobs
<1>3. PICK q \in LeastUsed(Eligible(w), Head(todo[w]).needed) :
            targets' = [targets EXCEPT ![w] = q]
  BY DEF Pick
<1>4. q \in Seq(Eligible(w)) /\ q # <<>>
  BY <1>2, LeastUsedType DEF Pick
<1>5. q \in Seq(Nodes)
  BY <1>4 DEF Eligible
<1>6. TypeOK'
  BY <1>3, <1>5 DEF TypeOK, Pick, Goto, tables, marking
<1>7. WorkersBusy'
  BY <1>1, <1>3, <1>4 DEF TypeOK, WorkersBusy, Pick, Goto
<1>8. CopiedIsStored'
  BY <1>3 DEF TypeOK, CopiedIsStored, Pick, Goto, Current, Target
<1>9. RowIsStored' /\ AtRiskHasRow'
  BY DEF RowIsStored, AtRiskHasRow, Pick, tables, marking, HasRow
<1> QED
  BY <1>6, <1>7, <1>8, <1>9

\* Ending the current chunk, and giving it up, leave the tables alone.
LEMMA GiveUpIInv ==
    ASSUME IInv, NEW w \in Workers, pc[w] \in {"pick", "settle"},
           Conclude(w) \/ GiveUp(w), faults' \in 0..MaxFaults,
           UNCHANGED <<tables, bucket, targets, marking>>
    PROVE  IInv'
<1> USE DEF IInv, tables, marking
<1>1. Tail(todo[w]) \in Seq(Jobs)
  BY DEF TypeOK, WorkersBusy
<1>2. SettleEvent("acked") \/ SettleEvent("dropped") => event' \in [Events -> EventStates]
  BY DEF TypeOK, SettleEvent, EventStates
<1>3. CASE Conclude(w)
  <2>1. TypeOK'
    BY <1>1, <1>2, <1>3 DEF TypeOK, Conclude, Goto
  <2>2. WorkersBusy'
    BY <1>1, <1>3 DEF TypeOK, WorkersBusy, Conclude, Goto
  <2>3. CopiedIsStored'
    BY <1>3 DEF TypeOK, CopiedIsStored, Conclude, Goto, Current, Target
  <2> QED
    BY <2>1, <2>2, <2>3 DEF RowIsStored, AtRiskHasRow, HasRow
<1>4. CASE Nack /\ w = Consumer
  <2>1. TypeOK'
    BY <1>2, <1>4 DEF TypeOK, Nack, Goto
  <2>2. WorkersBusy'
    BY <1>4 DEF TypeOK, WorkersBusy, Nack, Goto
  <2>3. CopiedIsStored'
    BY <1>4 DEF TypeOK, CopiedIsStored, Nack, Goto, Current, Target
  <2> QED
    BY <2>1, <2>2, <2>3 DEF RowIsStored, AtRiskHasRow, HasRow
<1> QED
  BY <1>3, <1>4 DEF GiveUp

LEMMA CopyIInv == ASSUME IInv, NEW w \in Workers, Copy(w) PROVE IInv'
<1> USE DEF IInv, tables, copying, marking
<1>1. Current(w) \in Chunks /\ Target(w) \in Nodes
  BY CurrentType DEF Copy
<1>2. StorageKey[Current(w)] \in Keys
  BY <1>1 DEF Keys
<1>3. TypeOK'
  BY <1>2 DEF TypeOK, Copy, Goto
<1>4. WorkersBusy'
  BY DEF TypeOK, WorkersBusy, Copy, Goto
<1>5. CopiedIsStored'
  BY <1>1, SMTT(30) DEF TypeOK, CopiedIsStored, Copy, Goto, Current, Target
<1>6. RowIsStored' /\ AtRiskHasRow'
  BY <1>1 DEF TypeOK, RowIsStored, Copy, HasRow, AtRiskHasRow
<1> QED
  BY <1>3, <1>4, <1>5, <1>6

LEMMA CountIInv == ASSUME IInv, NEW w \in Workers, Count(w) PROVE IInv'
<1> USE DEF IInv, copying, marking
<1>1. Current(w) \in Chunks /\ Target(w) \in Nodes
  BY CurrentType DEF Count
<1>2. usedBytes[Target(w)] + SizeBytes[Current(w)] \in Nat
  BY <1>1, SizeAssumption DEF TypeOK
<1>3. TypeOK'
  BY <1>2 DEF TypeOK, Count, Goto
<1>4. WorkersBusy'
  BY DEF TypeOK, WorkersBusy, Count, Goto
<1>5. CopiedIsStored'
  BY DEF TypeOK, CopiedIsStored, Count, Goto, Current, Target
<1>6. RowIsStored' /\ AtRiskHasRow'
  BY DEF RowIsStored, Count, HasRow, AtRiskHasRow
<1> QED
  BY <1>3, <1>4, <1>5, <1>6

\* Moving to the next target keeps the shape of the worker's state.
LEMMA NextTargetShape ==
    ASSUME IInv, NEW w \in Workers, pc[w] \in {"copy", "count", "record"},
           NextTarget(w), UNCHANGED <<todo, bucket>>
    PROVE  /\ targets' \in [Workers -> Seq(Nodes)]
           /\ pc' = [pc EXCEPT ![w] = pc'[w]]
           /\ pc'[w] \in {"settle", "copy"}
           /\ WorkersBusy'
           /\ CopiedIsStored'
<1> USE DEF IInv
<1>1. Tail(targets[w]) \in Seq(Nodes)
  BY DEF TypeOK, WorkersBusy
<1>2. /\ targets' \in [Workers -> Seq(Nodes)]
      /\ pc' = [pc EXCEPT ![w] = pc'[w]]
      /\ pc'[w] \in {"settle", "copy"}
  BY <1>1 DEF TypeOK, NextTarget, Goto
<1>3. WorkersBusy'
  BY <1>1 DEF TypeOK, WorkersBusy, NextTarget, Goto
<1>4. CopiedIsStored'
  BY DEF TypeOK, CopiedIsStored, NextTarget, Goto, Current, Target
<1> QED
  BY <1>2, <1>3, <1>4

LEMMA RecordIInv == ASSUME IInv, NEW w \in Workers, Record(w) PROVE IInv'
<1> USE DEF IInv, marking
<1>1. Current(w) \in Chunks /\ Target(w) \in Nodes
  BY CurrentType DEF Record
<1>2. StorageKey[Current(w)] \in bucket[Target(w)]
  BY DEF CopiedIsStored, Record
<1>3. /\ targets' \in [Workers -> Seq(Nodes)]
      /\ pc' = [pc EXCEPT ![w] = pc'[w]]
      /\ pc'[w] \in {"settle", "copy"}
      /\ WorkersBusy'
      /\ CopiedIsStored'
  BY NextTargetShape DEF Record
<1>4. stored' \in [Workers -> BOOLEAN] /\ faults' \in 0..MaxFaults
  BY FaultType DEF TypeOK, Record
<1>5. replica' \in [Chunks -> [Nodes -> Statuses]]
  BY <1>1 DEF TypeOK, Record, Statuses
<1>6. TypeOK'
  BY <1>3, <1>4, <1>5, ZenonT(60) DEF TypeOK, Record
<1>7. RowIsStored'
  BY <1>1, <1>2 DEF TypeOK, RowIsStored, Record, HasRow
<1>8. AtRiskHasRow'
  BY <1>1 DEF TypeOK, AtRiskHasRow, Record
<1> QED
  BY <1>3, <1>6, <1>7, <1>8

LEMMA TargetFailsIInv == ASSUME IInv, NEW w \in Workers, TargetFails(w) PROVE IInv'
<1> USE DEF IInv, tables, marking
<1>1. /\ targets' \in [Workers -> Seq(Nodes)]
      /\ pc' = [pc EXCEPT ![w] = pc'[w]]
      /\ pc'[w] \in {"settle", "copy"}
      /\ WorkersBusy'
      /\ CopiedIsStored'
  BY NextTargetShape DEF TargetFails
<1>2. faults' \in 0..MaxFaults
  BY FaultType DEF TypeOK, TargetFails
<1>3. TypeOK'
  BY <1>1, <1>2 DEF TypeOK, TargetFails
<1>4. RowIsStored' /\ AtRiskHasRow'
  BY DEF RowIsStored, TargetFails, HasRow, AtRiskHasRow
<1> QED
  BY <1>1, <1>3, <1>4

LEMMA CopyStepIInv == ASSUME IInv, NEW w \in Workers, CopyStep(w) PROVE IInv'
<1>1. CASE Pick(w)
  BY <1>1, PickIInv
<1>2. CASE PickNothing(w)
  <2>1. faults' \in 0..MaxFaults
    BY <1>2, FaultType DEF IInv, TypeOK, PickNothing
  <2> QED
    BY <1>2, <2>1, GiveUpIInv DEF PickNothing
<1>3. CASE Copy(w)
  BY <1>3, CopyIInv
<1>4. CASE Count(w)
  BY <1>4, CountIInv
<1>5. CASE Record(w)
  BY <1>5, RecordIInv
<1>6. CASE TargetFails(w)
  BY <1>6, TargetFailsIInv
<1>7. CASE Settle(w)
  <2>1. faults' \in 0..MaxFaults
    BY <1>7 DEF IInv, TypeOK, Settle
  <2> QED
    BY <1>7, <2>1, GiveUpIInv DEF Settle
<1> QED
  BY <1>1, <1>2, <1>3, <1>4, <1>5, <1>6, <1>7 DEF CopyStep

----------------------------------------------------------------------------
\* A sweep's own steps never touch a bucket, and turn a row lost only if it exists.
LEMMA SweepIInv ==
    ASSUME IInv, NEW s \in Sweeps, SweepStep(s)
    PROVE  IInv'
<1> USE DEF IInv, tables, copying, marking
<1>0. s \in Workers
  BY DEF Workers
<1>1. CASE SweepStarts(s)
  <2>1. TypeOK'
    BY <1>0, <1>1 DEF TypeOK, SweepStarts, Goto
  <2>2. WorkersBusy' /\ CopiedIsStored' /\ RowIsStored' /\ AtRiskHasRow'
    BY <1>0, <1>1 DEF TypeOK, WorkersBusy, CopiedIsStored, RowIsStored, SweepStarts, Goto,
       AtRiskHasRow, Current, Target, HasRow
  <2> QED
    BY <2>1, <2>2
<1>2. CASE ListAtRisk(s)
  <2>1. TypeOK'
    BY <1>0, <1>2 DEF TypeOK, ListAtRisk, Goto
  <2>2. WorkersBusy' /\ CopiedIsStored' /\ RowIsStored' /\ AtRiskHasRow'
    BY <1>0, <1>2 DEF TypeOK, WorkersBusy, CopiedIsStored, RowIsStored, ListAtRisk, Goto,
       AtRiskHasRow, Current, Target, HasRow
  <2> QED
    BY <2>1, <2>2
<1>3. CASE MarkLost(s)
  <2>1. PICK r \in atRisk[s] :
            /\ replica' = [replica EXCEPT ![r[1]][r[2]] = "lost"]
            /\ atRisk' = [atRisk EXCEPT ![s] = @ \ {r}]
            /\ Goto(s, IF atRisk[s] = {r} THEN "scan" ELSE "mark")
    BY <1>3 DEF MarkLost
  <2>2. r[1] \in Chunks /\ r[2] \in Nodes
    BY DEF TypeOK
  <2>3. TypeOK'
    BY <1>0, <1>3, <2>1, <2>2 DEF TypeOK, MarkLost, Goto, Statuses
  <2>4. WorkersBusy' /\ CopiedIsStored'
    BY <1>0, <1>3, <2>1 DEF TypeOK, WorkersBusy, CopiedIsStored, MarkLost, Goto, Current, Target
  <2>5. replica[r[1]][r[2]] # "none"
    BY DEF AtRiskHasRow
  <2>6. RowIsStored'
    BY <1>3, <2>1, <2>2, <2>5 DEF TypeOK, RowIsStored, MarkLost, HasRow
  <2>7. AtRiskHasRow'
    BY <1>3, <2>1, <2>2 DEF TypeOK, AtRiskHasRow, MarkLost
  <2> QED
    BY <2>3, <2>4, <2>6, <2>7
<1>4. CASE ListUnderReplicated(s)
  <2>1. PICK q \in Listings(UnderReplicated) :
            /\ todo' = [todo EXCEPT ![s] = [i \in DOMAIN q |->
                  [chunk |-> q[i],
                   needed |-> ReplicationFactor - Cardinality(Synced(q[i]))]]]
            /\ Goto(s, IF q = <<>> THEN "idle" ELSE "rows")
    BY <1>4 DEF ListUnderReplicated
  <2>2. IsFiniteSet(UnderReplicated)
    BY FiniteAssumption, FS_Subset DEF UnderReplicated
  <2>3. q \in Seq(UnderReplicated) /\ \A i \in DOMAIN q : q[i] \in UnderReplicated
    BY <2>2, ListingsType
  <2> DEFINE job(i) == [chunk |-> q[i],
                        needed |-> ReplicationFactor - Cardinality(Synced(q[i]))]
  <2>4. \A i \in DOMAIN q : job(i) \in Jobs
    BY <2>3, SyncedCount, BoundAssumption DEF UnderReplicated, Jobs
  <2>5. [i \in DOMAIN q |-> job(i)] \in Seq(Jobs)
    BY <2>3, <2>4
  <2>6. q # <<>> => [i \in DOMAIN q |-> job(i)] # <<>>
    BY <2>3
  <2>7. TypeOK'
    BY <1>0, <1>4, <2>1, <2>5 DEF TypeOK, ListUnderReplicated, Goto
  <2>8. WorkersBusy'
    BY <1>0, <1>4, <2>1, <2>6 DEF TypeOK, WorkersBusy, ListUnderReplicated, Goto
  <2>9. CopiedIsStored' /\ RowIsStored' /\ AtRiskHasRow'
    BY <1>0, <1>4, <2>1 DEF TypeOK, CopiedIsStored, RowIsStored, ListUnderReplicated, Goto,
       AtRiskHasRow, Current, Target, HasRow
  <2> QED
    BY <2>7, <2>8, <2>9
<1>5. CASE ListRows(s)
  <2>1. TypeOK'
    BY <1>0, <1>5 DEF TypeOK, ListRows, Goto, HasRow
  <2>2. WorkersBusy' /\ CopiedIsStored' /\ RowIsStored' /\ AtRiskHasRow'
    BY <1>0, <1>5 DEF TypeOK, WorkersBusy, CopiedIsStored, RowIsStored, ListRows, Goto,
       AtRiskHasRow, Current, Target, HasRow
  <2> QED
    BY <2>1, <2>2
<1>6. CASE SweepFails(s)
  <2>1. faults' \in 0..MaxFaults
    BY <1>6, FaultType DEF TypeOK, SweepFails
  <2>2. TypeOK'
    BY <1>0, <1>6, <2>1 DEF TypeOK, SweepFails, Goto
  <2>3. WorkersBusy' /\ CopiedIsStored' /\ RowIsStored' /\ AtRiskHasRow'
    BY <1>0, <1>6 DEF TypeOK, WorkersBusy, CopiedIsStored, RowIsStored, SweepFails, Goto,
       AtRiskHasRow, Current, Target, HasRow
  <2> QED
    BY <2>2, <2>3
<1> QED
  BY <1>1, <1>2, <1>3, <1>4, <1>5, <1>6 DEF SweepStep

----------------------------------------------------------------------------
LEMMA NextIInv == IInv /\ [Next]_vars => IInv'
<1> SUFFICES ASSUME IInv, [Next]_vars PROVE IInv'
  OBVIOUS
<1> USE DEF IInv, tables, copying, marking
<1>1. ASSUME NEW e \in Events, Publish(e) \/ PublishFails(e)
      PROVE  IInv'
  <2>1. faults' \in 0..MaxFaults
    BY <1>1, FaultType DEF TypeOK, Publish, PublishFails
  <2>2. TypeOK'
    BY <1>1, <2>1 DEF TypeOK, Publish, PublishFails, EventStates
  <2> QED
    BY <1>1, <2>2 DEF Publish, PublishFails, WorkersBusy, CopiedIsStored, AtRiskHasRow,
       RowIsStored, Current, Target, HasRow
<1>2. ASSUME NEW e \in Events, Deliver(e)
      PROVE  IInv'
  <2>0. Consumer \in Workers
    BY DEF Workers
  <2> DEFINE job(i) == [chunk |-> Batch[e][i], needed |-> ReplicationFactor]
  <2>1. Batch[e] \in Seq(Chunks) /\ Batch[e] # <<>>
    BY BatchAssumption
  <2>2. \A i \in DOMAIN Batch[e] : job(i) \in Jobs
    BY <2>1, BoundAssumption DEF Jobs
  <2>3. [i \in DOMAIN Batch[e] |-> job(i)] \in Seq(Jobs)
    BY <2>1, <2>2
  <2>4. [i \in DOMAIN Batch[e] |-> job(i)] # <<>>
    BY <2>1
  <2>5. TypeOK'
    BY <1>2, <2>0, <2>3 DEF TypeOK, Deliver, Goto, EventStates
  <2>6. WorkersBusy'
    BY <1>2, <2>0, <2>4 DEF TypeOK, WorkersBusy, Deliver, Goto
  <2>7. CopiedIsStored' /\ AtRiskHasRow' /\ RowIsStored'
    BY <1>2, <2>0 DEF TypeOK, CopiedIsStored, AtRiskHasRow, RowIsStored, Deliver, Goto,
       Current, Target, HasRow
  <2> QED
    BY <2>5, <2>6, <2>7
<1>3. ASSUME NEW w \in Workers, CopyStep(w)
      PROVE  IInv'
  BY <1>3, CopyStepIInv
<1>4. ASSUME NEW s \in Sweeps, SweepStep(s)
      PROVE  IInv'
  BY <1>4, SweepIInv
<1>5. ASSUME NEW n \in Nodes, NodeFails(n) \/ NodeReturns(n)
      PROVE  IInv'
  <2>1. faults' \in 0..MaxFaults
    BY <1>5, FaultType DEF TypeOK, NodeFails, NodeReturns
  <2>2. TypeOK'
    BY <1>5, <2>1 DEF TypeOK, NodeFails, NodeReturns
  <2> QED
    BY <1>5, <2>2 DEF NodeFails, NodeReturns, WorkersBusy, CopiedIsStored, AtRiskHasRow,
       RowIsStored, Current, Target, HasRow
<1>6. CASE Crash
  <2>1. faults' \in 0..MaxFaults
    BY <1>6, FaultType DEF TypeOK, Crash, Halt
  <2>2. TypeOK'
    BY <1>6, <2>1 DEF TypeOK, Crash, Halt, SettleEvent, EventStates
  <2>3. WorkersBusy' /\ CopiedIsStored' /\ AtRiskHasRow' /\ RowIsStored'
    BY <1>6 DEF Crash, Halt, WorkersBusy, CopiedIsStored, AtRiskHasRow, RowIsStored, HasRow
  <2> QED
    BY <2>2, <2>3
<1>7. CASE UNCHANGED vars
  BY <1>7 DEF vars, TypeOK, WorkersBusy, CopiedIsStored, AtRiskHasRow, RowIsStored,
     Current, Target, HasRow
<1> QED
  BY <1>1, <1>2, <1>3, <1>4, <1>5, <1>6, <1>7 DEF Next

LEMMA Inductive == Spec => []IInv
  BY InitIInv, NextIInv, PTL DEF Spec

\* Every reachable state is well typed: the workers' sequences of jobs and targets
\* stay within the chunks and nodes however sweeps and messages interleave.
THEOREM TypeCorrect == Spec => []TypeOK
<1>1. IInv => TypeOK
  BY DEF IInv
<1> QED
  BY <1>1, Inductive, PTL

\* No replica row without its bytes, for any number of overlapping sweeps, crashes
\* and failing calls.
THEOREM RowsAreStored == Spec => []RowIsStored
<1>1. IInv => RowIsStored
  BY DEF IInv
<1> QED
  BY <1>1, Inductive, PTL

----------------------------------------------------------------------------
(* The sum of a finite set is additive, whatever the order in which the    *)
(* fold takes the elements.                                                *)

\* Among some subsets of a finite set one is minimal: the form of induction used here.
LEMMA MinimalSubset ==
    ASSUME NEW S, IsFiniteSet(S), NEW B, B \subseteq SUBSET S, B # {}
    PROVE  \E s \in B : \A t \in B : t \subseteq s => t = s
<1>1. IsWellFoundedOn(StrictSubsetOrdering(S), FiniteSubsetsOf(S))
  BY FS_StrictSubsetOrderingWellFounded
<1>2. B \subseteq FiniteSubsetsOf(S)
  BY FS_Subset DEF FiniteSubsetsOf
<1>3. PICK s \in B : \A t \in B : ~ (<<t, s>> \in StrictSubsetOrdering(S))
  BY <1>1, <1>2, WFMin
<1> QED
  BY <1>3 DEF StrictSubsetOrdering

\* m gives each subset of S the sum of the weights w of its elements.
Additive(m, S, w) ==
    /\ m \in [SUBSET S -> Nat]
    /\ m[{}] = 0
    /\ \A s \in SUBSET S : \A x \in s : m[s] = w[x] + m[s \ {x}]

LEMMA AdditiveExists ==
    ASSUME NEW S, IsFiniteSet(S), NEW w \in [S -> Nat]
    PROVE  \E m : Additive(m, S, w)
<1> DEFINE B == {s \in SUBSET S : ~ \E m : Additive(m, s, w)}
<1>1. SUFFICES ASSUME B # {} PROVE FALSE
  OBVIOUS
<1>2. PICK s \in B : \A t \in B : t \subseteq s => t = s
  <2>1. B \subseteq SUBSET S
    OBVIOUS
  <2> HIDE DEF B
  <2> QED
    BY <1>1, <2>1, MinimalSubset
<1>3. CASE s = {}
  <2> DEFINE none == [t \in SUBSET s |-> 0]
  <2>1. Additive(none, s, w)
    BY <1>3 DEF Additive
  <2> QED
    BY <1>2, <2>1
<1>4. CASE s # {}
  <2>1. PICK y \in s : TRUE
    BY <1>4
  <2> DEFINE r == s \ {y}
  <2>2. r \in SUBSET S /\ r \notin B
    BY <1>2, <2>1
  <2>3. PICK m : Additive(m, r, w)
    BY <2>2
  <2> DEFINE new == [t \in SUBSET s |-> IF y \in t THEN w[y] + m[t \ {y}] ELSE m[t]]
  <2>4. w[y] \in Nat /\ s \subseteq S
    BY <2>1
  <2>5. \A t \in SUBSET s : t \ {y} \in SUBSET r /\ (y \notin t => t \in SUBSET r)
    OBVIOUS
  <2>6. \A t \in SUBSET r : m[t] \in Nat
    BY <2>3 DEF Additive
  <2>7. new \in [SUBSET s -> Nat]
    BY <2>4, <2>5, <2>6
  <2>8. new[{}] = 0
    BY <2>3 DEF Additive
  <2>9. ASSUME NEW t \in SUBSET s, NEW x \in t
        PROVE  new[t] = w[x] + new[t \ {x}]
    <3>1. w[x] \in Nat /\ t \ {x} \in SUBSET s
      BY <2>4
    <3>2. CASE x = y
      <4>1. new[t] = w[y] + m[t \ {y}] /\ new[t \ {x}] = m[t \ {y}]
        BY <3>1, <3>2
      <4> QED
        BY <3>2, <4>1
    <3>3. CASE x # y /\ y \in t
      <4>1. new[t] = w[y] + m[t \ {y}] /\ new[t \ {x}] = w[y] + m[(t \ {x}) \ {y}]
        BY <3>1, <3>3
      <4>2. (t \ {x}) \ {y} = (t \ {y}) \ {x}
        OBVIOUS
      <4>3. m[t \ {y}] = w[x] + m[(t \ {y}) \ {x}]
        BY <2>3, <2>5, <3>3 DEF Additive
      <4>4. m[(t \ {y}) \ {x}] \in Nat
        BY <2>5, <2>6
      <4> QED
        BY <2>4, <3>1, <4>1, <4>2, <4>3, <4>4
    <3>4. CASE x # y /\ y \notin t
      <4>1. new[t] = m[t] /\ new[t \ {x}] = m[t \ {x}]
        BY <3>1, <3>4
      <4>2. m[t] = w[x] + m[t \ {x}]
        BY <2>3, <2>5, <3>4 DEF Additive
      <4> QED
        BY <4>1, <4>2
    <3> QED
      BY <3>2, <3>3, <3>4
  <2>10. Additive(new, s, w)
    <3> HIDE DEF new
    <3> QED
      BY <2>7, <2>8, <2>9 DEF Additive
  <2> QED
    BY <1>2, <2>10
<1> QED
  BY <1>3, <1>4

\* The recursion of the fold: take some element first.
First(s) == CHOOSE x \in s : TRUE
IsFold(f, S, w) ==
    f = [s \in SUBSET S |-> IF s = {} THEN 0 ELSE w[First(s)] + f[s \ {First(s)}]]

LEMMA FoldIsAdditive ==
    ASSUME NEW S, IsFiniteSet(S), NEW w, NEW m, Additive(m, S, w), NEW f, IsFold(f, S, w)
    PROVE  f[S] = m[S]
<1> DEFINE B == {s \in SUBSET S : f[s] # m[s]}
<1>1. SUFFICES ASSUME B # {} PROVE FALSE
  OBVIOUS
<1>2. PICK s \in B : \A t \in B : t \subseteq s => t = s
  <2>1. B \subseteq SUBSET S
    OBVIOUS
  <2> HIDE DEF B
  <2> QED
    BY <1>1, <2>1, MinimalSubset
<1>3. f[s] = IF s = {} THEN 0 ELSE w[First(s)] + f[s \ {First(s)}]
  BY DEF IsFold
<1>4. s # {}
  BY <1>2, <1>3 DEF Additive
<1>5. First(s) \in s
  BY <1>4 DEF First
<1>6. f[s \ {First(s)}] = m[s \ {First(s)}]
  BY <1>2, <1>5
<1>7. m[s] = w[First(s)] + m[s \ {First(s)}]
  BY <1>5 DEF Additive
<1> QED
  BY <1>2, <1>3, <1>4, <1>6, <1>7

LEMMA AdditiveIsFold ==
    ASSUME NEW S, NEW w, NEW m, Additive(m, S, w)
    PROVE  IsFold(m, S, w)
<1>1. \A s \in SUBSET S : s # {} => First(s) \in s
  BY DEF First
<1>2. \A s \in SUBSET S : m[s] = IF s = {} THEN 0 ELSE w[First(s)] + m[s \ {First(s)}]
  BY <1>1 DEF Additive
<1> QED
  BY <1>2 DEF IsFold, Additive

LEMMA SumIsAdditive ==
    ASSUME NEW S, IsFiniteSet(S), NEW w, NEW m, Additive(m, S, w)
    PROVE  MapThenSumSet(LAMBDA x : w[x], S) = m[S]
<1>1. MapThenSumSet(LAMBDA x : w[x], S) = (CHOOSE f : IsFold(f, S, w))[S]
  BY DEF MapThenSumSet, MapThenFoldSet, IsFold, First
<1>2. IsFold(CHOOSE f : IsFold(f, S, w), S, w)
  BY AdditiveIsFold, Zenon
<1> QED
  BY <1>1, <1>2, FoldIsAdditive

LEMMA BytesAddUp ==
    /\ BytesOf({}) = 0
    /\ \A S \in SUBSET Chunks :
        /\ BytesOf(S) \in Nat
        /\ \A c \in S : BytesOf(S) = SizeBytes[c] + BytesOf(S \ {c})
<1>1. PICK m : Additive(m, Chunks, SizeBytes)
  <2>1. SizeBytes \in [Chunks -> Nat] /\ IsFiniteSet(Chunks)
    BY SizeAssumption, FiniteAssumption
  <2> QED
    BY <2>1, AdditiveExists
<1>2. ASSUME NEW T \in SUBSET Chunks
      PROVE  BytesOf(T) = m[T]
  <2> DEFINE on == [s \in SUBSET T |-> m[s]]
  <2>1. Additive(on, T, SizeBytes)
    BY <1>1 DEF Additive
  <2>2. IsFiniteSet(T)
    BY FiniteAssumption, FS_Subset
  <2>3. on[T] = m[T]
    OBVIOUS
  <2> HIDE DEF on
  <2>4. BytesOf(T) = on[T]
    BY <2>1, <2>2, SumIsAdditive DEF BytesOf
  <2> QED
    BY <2>3, <2>4
<1> QED
  BY <1>1, <1>2 DEF Additive

LEMMA BytesWithOneMore ==
    ASSUME NEW S \in SUBSET Chunks, NEW c \in Chunks
    PROVE  BytesOf(S \union {c}) <= BytesOf(S) + SizeBytes[c]
<1> DEFINE more == S \union {c}
<1>1. BytesOf(S) \in Nat /\ SizeBytes[c] \in Nat
  BY BytesAddUp, SizeAssumption
<1>2. CASE c \in S
  <2>1. more = S
    BY <1>2
  <2> HIDE DEF more
  <2>2. BytesOf(more) <= BytesOf(S) + SizeBytes[c]
    BY <1>1, <2>1
  <2> QED
    BY <2>2 DEF more
<1>3. CASE c \notin S
  <2>1. more \ {c} = S /\ more \in SUBSET Chunks /\ c \in more
    BY <1>3
  <2> HIDE DEF more
  <2>2. BytesOf(more) = SizeBytes[c] + BytesOf(S)
    BY <2>1, BytesAddUp
  <2>3. BytesOf(more) <= BytesOf(S) + SizeBytes[c]
    BY <1>1, <2>2
  <2> QED
    BY <2>3 DEF more
<1> QED
  BY <1>2, <1>3

LEMMA BytesMonotone ==
    ASSUME NEW S \in SUBSET Chunks, NEW T \in SUBSET S
    PROVE  BytesOf(T) <= BytesOf(S)
<1> DEFINE B == {s \in SUBSET S : T \subseteq s /\ ~ (BytesOf(T) <= BytesOf(s))}
<1>1. ASSUME B # {} PROVE FALSE
  <2>1. PICK s \in B : \A t \in B : t \subseteq s => t = s
    <3>1. B \subseteq SUBSET S /\ IsFiniteSet(S)
      BY FiniteAssumption, FS_Subset
    <3> HIDE DEF B
    <3> QED
      BY <1>1, <3>1, MinimalSubset
  <2>2. BytesOf(T) \in Nat /\ BytesOf(s) \in Nat
    BY BytesAddUp
  <2>3. PICK c \in s : c \notin T
    <3>1. T \subseteq s /\ s # T
      <4>1. ASSUME s = T PROVE BytesOf(T) <= BytesOf(s)
        BY <2>2, <4>1
      <4> QED
        BY <2>1, <4>1
    <3> QED
      BY <3>1
  <2>4. s \ {c} \notin B /\ s \ {c} \in SUBSET S /\ T \subseteq s \ {c}
    BY <2>1, <2>3
  <2>5. BytesOf(T) <= BytesOf(s \ {c})
    BY <2>4
  <2>6. BytesOf(s) = SizeBytes[c] + BytesOf(s \ {c}) /\ BytesOf(s \ {c}) \in Nat
    BY <2>1, BytesAddUp
  <2>7. SizeBytes[c] \in Nat
    BY SizeAssumption
  <2> QED
    BY <2>1, <2>2, <2>5, <2>6, <2>7
<1> QED
  BY <1>1

----------------------------------------------------------------------------
(* used_bytes covers the replicas.                                         *)

\* What a node's used_bytes has counted: the chunks with a row, and those whose upsert a
\* worker is about to send.
Upserting(w, c, n) == pc[w] = "record" /\ Current(w) = c /\ Target(w) = n
Counted(n) == {c \in Chunks : n \in HasRow(c) \/ \E w \in Workers : Upserting(w, c, n)}
CountsCover == \A n \in Nodes : usedBytes[n] >= BytesOf(Counted(n))

\* A worker gets to the upsert by counting, and nobody else changes its chunk or target.
LEMMA UpsertStep ==
    ASSUME IInv, [Next]_vars, ~ \E w \in Workers : Count(w)
    PROVE  /\ UNCHANGED usedBytes
           /\ \A w \in Workers : pc'[w] = "record" =>
                pc[w] = "record" /\ todo'[w] = todo[w] /\ targets'[w] = targets[w]
<1> DEFINE Kept == /\ UNCHANGED usedBytes
                   /\ \A v \in Workers : pc'[v] = "record" =>
                        pc[v] = "record" /\ todo'[v] = todo[v] /\ targets'[v] = targets[v]
<1> SUFFICES Kept
  OBVIOUS
<1>0. Consumer \in Workers /\ Sweeps \subseteq Workers
  BY DEF Workers
<1>1. ASSUME NEW e \in Events, Publish(e) \/ PublishFails(e) \/ Deliver(e)
      PROVE  Kept
  BY <1>0, <1>1 DEF Publish, PublishFails, Deliver, Goto, tables, copying, IInv, TypeOK
<1>2. ASSUME NEW w \in Workers, GiveUp(w) \/ Conclude(w), UNCHANGED <<usedBytes, targets>>
      PROVE  Kept
  BY <1>0, <1>2 DEF GiveUp, Nack, Conclude, Goto, IInv, TypeOK
<1>3. ASSUME NEW w \in Workers, CopyStep(w)
      PROVE  Kept
  <2>1. ASSUME PickNothing(w) \/ Settle(w) PROVE Kept
    BY <1>2, <2>1 DEF PickNothing, Settle, tables
  <2>2. ASSUME Pick(w) PROVE Kept
    BY <2>2 DEF Pick, Goto, tables, IInv, TypeOK
  <2>3. ASSUME Copy(w) PROVE Kept
    BY <2>3 DEF Copy, Goto, tables, copying, IInv, TypeOK
  <2>4. ASSUME Record(w) \/ TargetFails(w) PROVE Kept
    BY <2>4 DEF Record, TargetFails, NextTarget, Goto, tables, IInv, TypeOK
  <2> QED
    BY <1>3, <2>1, <2>2, <2>3, <2>4 DEF CopyStep
<1>4. ASSUME NEW s \in Sweeps, SweepStep(s)
      PROVE  Kept
  <2>1. ASSUME SweepStarts(s) \/ ListAtRisk(s) \/ MarkLost(s) \/ ListRows(s) PROVE Kept
    BY <1>0, <2>1 DEF SweepStarts, ListAtRisk, MarkLost, ListRows, Goto, tables, copying,
       IInv, TypeOK
  <2>2. ASSUME ListUnderReplicated(s) \/ SweepFails(s) PROVE Kept
    BY <1>0, <2>2 DEF ListUnderReplicated, SweepFails, Goto, tables, copying, IInv, TypeOK
  <2> QED
    BY <1>4, <2>1, <2>2 DEF SweepStep
<1>5. ASSUME NEW n \in Nodes, NodeFails(n) \/ NodeReturns(n)
      PROVE  Kept
  BY <1>5 DEF NodeFails, NodeReturns, copying
<1>6. ASSUME Crash PROVE Kept
  BY <1>6 DEF Crash, Halt, tables
<1>7. ASSUME UNCHANGED vars PROVE Kept
  BY <1>7 DEF vars
<1> QED
  BY <1>1, <1>3, <1>4, <1>5, <1>6, <1>7 DEF Next

\* New rows are those of upserts.
LEMMA RowStep ==
    ASSUME IInv, [Next]_vars, NEW c \in Chunks, NEW n \in Nodes,
           replica'[c][n] # "none", replica[c][n] = "none"
    PROVE  \E w \in Workers : Upserting(w, c, n)
<1>1. ASSUME NEW w \in Workers, Record(w)
      PROVE  Upserting(w, c, n)
  <2>1. Current(w) \in Chunks /\ Target(w) \in Nodes
    BY <1>1, CurrentType DEF Record
  <2> QED
    BY <1>1, <2>1 DEF Record, Upserting, IInv, TypeOK
<1>2. ASSUME NEW s \in Sweeps, MarkLost(s)
      PROVE  FALSE
  <2>1. PICK r \in atRisk[s] : replica' = [replica EXCEPT ![r[1]][r[2]] = "lost"]
    BY <1>2 DEF MarkLost
  <2>2. r \in Chunks \X Nodes /\ replica[r[1]][r[2]] # "none"
    BY DEF IInv, TypeOK, AtRiskHasRow
  <2> QED
    BY <2>1, <2>2 DEF IInv, TypeOK
<1>3. ASSUME ~ (\E w \in Workers : Record(w)), ~ (\E s \in Sweeps : MarkLost(s))
      PROVE  UNCHANGED replica
  BY <1>3 DEF Next, CopyStep, SweepStep, Publish, PublishFails, Deliver, Pick, PickNothing, Copy,
     Count, TargetFails, Settle, SweepStarts, ListAtRisk, ListUnderReplicated, ListRows,
     SweepFails, NodeFails, NodeReturns, Crash, Halt, vars, tables
<1> QED
  BY <1>1, <1>2, <1>3

LEMMA CoverStep ==
    ASSUME IInv, CountsCover, [Next]_vars
    PROVE  CountsCover'
<1> SUFFICES ASSUME NEW n \in Nodes PROVE usedBytes'[n] >= BytesOf(Counted(n)')
  BY DEF CountsCover
<1> DEFINE new == Counted(n)'
           old == Counted(n)
<1>0. new \in SUBSET Chunks /\ old \in SUBSET Chunks
  BY DEF Counted
<1>1. \A c \in Chunks : n \in HasRow(c)' => c \in old
  BY RowStep DEF Counted, HasRow
<1>2. usedBytes[n] \in Nat /\ usedBytes[n] >= BytesOf(old) /\ BytesOf(old) \in Nat
  BY <1>0, BytesAddUp DEF CountsCover, IInv, TypeOK
<1>3. ASSUME NEW w \in Workers, Count(w)
      PROVE  usedBytes'[n] >= BytesOf(new)
  <2>1. Current(w) \in Chunks /\ Target(w) \in Nodes
    BY <1>3, CurrentType DEF Count, IInv
  <2>2. \A v \in Workers : Current(v)' = Current(v) /\ Target(v)' = Target(v)
    BY <1>3 DEF Count, copying, Current, Target
  <2>3. \A v \in Workers : pc'[v] = "record" => v = w \/ pc[v] = "record"
    BY <1>3 DEF Count, Goto, IInv, TypeOK
  <2>4. SizeBytes[Current(w)] \in Nat
    BY <2>1, SizeAssumption
  <2>5. usedBytes' = [usedBytes EXCEPT ![Target(w)] = @ + SizeBytes[Current(w)]]
    BY <1>3 DEF Count
  <2>6. CASE Target(w) = n
    <3> DEFINE more == old \union {Current(w)}
    <3>1. new \subseteq more
      BY <1>1, <2>2, <2>3 DEF Counted, Upserting
    <3>2. more \in SUBSET Chunks
      BY <1>0, <2>1
    <3>3. BytesOf(more) <= BytesOf(old) + SizeBytes[Current(w)]
      <4> HIDE DEF old
      <4> QED
        BY <1>0, <2>1, BytesWithOneMore
    <3>4. BytesOf(new) <= BytesOf(more) /\ BytesOf(new) \in Nat /\ BytesOf(more) \in Nat
      BY <1>0, <3>1, <3>2, BytesMonotone, BytesAddUp
    <3>5. usedBytes'[n] = usedBytes[n] + SizeBytes[Current(w)]
      BY <2>5, <2>6 DEF IInv, TypeOK
    <3> HIDE DEF more, new, old
    <3> QED
      BY <1>2, <2>4, <3>3, <3>4, <3>5
  <2>7. CASE Target(w) # n
    <3>1. new \subseteq old
      BY <1>1, <2>2, <2>3, <2>7 DEF Counted, Upserting
    <3>2. BytesOf(new) <= BytesOf(old) /\ BytesOf(new) \in Nat
      BY <1>0, <3>1, BytesMonotone, BytesAddUp
    <3>3. usedBytes'[n] = usedBytes[n]
      BY <2>1, <2>5, <2>7 DEF IInv, TypeOK
    <3> HIDE DEF new, old
    <3> QED
      BY <1>2, <3>2, <3>3
  <2> QED
    BY <2>6, <2>7
<1>4. ASSUME ~ \E w \in Workers : Count(w)
      PROVE  usedBytes'[n] >= BytesOf(new)
  <2>1. UNCHANGED usedBytes
    BY <1>4, UpsertStep
  <2>2. \A w \in Workers : pc'[w] = "record" =>
            pc[w] = "record" /\ Current(w)' = Current(w) /\ Target(w)' = Target(w)
    BY <1>4, UpsertStep DEF Current, Target
  <2>3. new \subseteq old
    BY <1>1, <2>2 DEF Counted, Upserting
  <2>4. BytesOf(new) <= BytesOf(old) /\ BytesOf(new) \in Nat
    BY <1>0, <2>3, BytesMonotone, BytesAddUp
  <2> HIDE DEF new, old
  <2> QED
    BY <1>2, <2>1, <2>4
<1> QED
  BY <1>3, <1>4

\* incrementUsedBytes comes before the upsert of the row, so used_bytes covers the bytes of
\* the recorded replicas of every node, through crashes, failures between the two and any
\* number of workers that copy the same chunk to the same node.
THEOREM UsedBytesCover == Spec => []UsedBytesCoverReplicas
<1>1. Init => CountsCover
  <2> SUFFICES ASSUME Init, NEW n \in Nodes PROVE usedBytes[n] >= BytesOf(Counted(n))
    BY DEF CountsCover
  <2>1. Counted(n) = {}
    BY DEF Init, Counted, HasRow, Upserting
  <2>2. usedBytes[n] = 0
    BY DEF Init
  <2> QED
    BY <2>1, <2>2, BytesAddUp
<1>2. IInv /\ CountsCover /\ [Next]_vars => CountsCover'
  BY CoverStep
<1>3. IInv /\ CountsCover => UsedBytesCoverReplicas
  <2> SUFFICES ASSUME IInv, CountsCover, NEW n \in Nodes
               PROVE  usedBytes[n] >= BytesOf({c \in Chunks : n \in HasRow(c)})
    BY DEF UsedBytesCoverReplicas
  <2> DEFINE rows == {c \in Chunks : n \in HasRow(c)}
  <2>1. rows \in SUBSET Counted(n) /\ Counted(n) \in SUBSET Chunks /\ rows \in SUBSET Chunks
    BY DEF Counted
  <2>2. BytesOf(rows) <= BytesOf(Counted(n)) /\ BytesOf(rows) \in Nat /\ BytesOf(Counted(n)) \in Nat
    BY <2>1, BytesMonotone, BytesAddUp
  <2>3. usedBytes[n] >= BytesOf(Counted(n)) /\ usedBytes[n] \in Nat
    BY DEF CountsCover, IInv, TypeOK
  <2> HIDE DEF rows
  <2>4. usedBytes[n] >= BytesOf(rows)
    BY <2>2, <2>3
  <2> QED
    BY <2>4 DEF rows
<1> QED
  BY <1>1, <1>2, <1>3, Inductive, PTL DEF Spec
============================================================================
