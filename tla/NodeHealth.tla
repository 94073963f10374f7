----------------------------- MODULE NodeHealth -----------------------------
(***************************************************************************)
(* Heartbeats of the storage nodes and the staleness sweeps that retire    *)
(* silent nodes: node agents, the heartbeat route and HeartbeatMonitor.    *)
(*                                                                         *)
(* Time is discrete.  A timestamp is kept as its age, so the state stays   *)
(* finite: last_heartbeat_at is the age of the last recorded beat, and an  *)
(* age beyond MaxAge (a null timestamp included) counts as MaxAge.  A      *)
(* timer that is due fires, and a call that has been in flight for         *)
(* MaxDelay ends, before time goes on: MaxDelay bounds the latency of one  *)
(* HTTP request or one query and is not in the code, which has no timeout. *)
(*                                                                         *)
(* setInterval starts a staleness sweep although the previous one may be   *)
(* waiting for the database, hence a set of Sweeps.                        *)
(*                                                                         *)
(* The service may be down for any time: after a crash, and while it       *)
(* starts, as it listens and arms the monitor's timer only when it has its *)
(* buckets and its connection to the broker.                               *)
(***************************************************************************)
EXTENDS Integers, FiniteSets

CONSTANTS
    Nodes,
    Sweeps,
    Interval,           \* HEARTBEAT_INTERVAL_MS of a node agent
    Stale,              \* HEARTBEAT_STALE_MS
    SweepEvery,         \* HEARTBEAT_SWEEP_INTERVAL_MS
    MaxDelay,
    MaxStarts,          \* bound: starts of agents
    MaxFaults           \* bound: lost heartbeats, failed sweeps, crashes of the service

ASSUME TimingAssumption ==
    /\ {Interval, Stale, SweepEvery, MaxDelay} \subseteq Nat \ {0}
    /\ {MaxStarts, MaxFaults} \subseteq Nat
    /\ IsFiniteSet(Nodes)
    /\ Interval + 3 * MaxDelay <= Stale

\* A sweep reads the nodes once and then marks them one by one.
SweepTime == (Cardinality(Nodes) + 1) * MaxDelay

\* The longest silence of a node still believed healthy that a running monitor leaves
\* undetected, after f failed sweeps.
Latency(f) == Stale + (1 + f) * (SweepEvery + SweepTime)
MaxAge == Latency(MaxFaults) + 1

VARIABLES
    isHealthy,          \* storage_nodes.is_healthy
    beatAge,            \* age of storage_nodes.last_heartbeat_at
    agentUp,            \* is the node's agent running?
    sendAge,            \* ticks since its timer last fired
    beats,              \* heartbeat requests in flight
    serviceUp,          \* has the service started, armed the timer and listened?
    upAge,              \* ticks since it did
    timerAge,           \* ticks since the monitor's timer last fired
    sweep,              \* the monitor's sweeps in progress
    failed,             \* sweeps that failed since the service started
    starts, faults

service == <<serviceUp, upAge, failed>>
vars == <<isHealthy, beatAge, agentUp, sendAge, beats, service, timerAge, sweep, starts, faults>>

\* A request looks the node up by name, then takes the time and writes it.  age is
\* the time spent looking up, then the age of the timestamp to write.
Requests == [node : Nodes, stage : {"lookup", "write"}, age : 0..MaxDelay]

\* age is the time since the sweep took `now', then since its current UPDATE was sent.
NoSweep == [stage |-> "idle", age |-> 0, stale |-> {}]
SweepStates ==
    [stage : {"idle", "read", "mark"}, age : 0..MaxDelay, stale : SUBSET Nodes]

Init ==
    /\ isHealthy = [n \in Nodes |-> TRUE]
    /\ beatAge = [n \in Nodes |-> 0]        \* the migration seeds now()
    /\ agentUp = [n \in Nodes |-> FALSE]
    /\ sendAge = [n \in Nodes |-> 0]
    /\ beats = {}
    /\ serviceUp = FALSE
    /\ upAge = 0
    /\ timerAge = 0
    /\ sweep = [s \in Sweeps |-> NoSweep]
    /\ failed = 0
    /\ starts = 0
    /\ faults = 0

Fault == faults < MaxFaults /\ faults' = faults + 1

----------------------------------------------------------------------------
(* The node agent: one heartbeat at start, then one per interval, whether  *)
(* or not the one before was answered.  A service that is down refuses it. *)

NewRequest(n) == [node |-> n, stage |-> "lookup", age |-> 0]

Send(n) == beats' = IF serviceUp THEN beats \union {NewRequest(n)} ELSE beats

AgentStarts(n) ==
    /\ ~agentUp[n]
    /\ starts < MaxStarts
    /\ starts' = starts + 1
    /\ agentUp' = [agentUp EXCEPT ![n] = TRUE]
    /\ sendAge' = [sendAge EXCEPT ![n] = 0]
    /\ Send(n)
    /\ UNCHANGED <<isHealthy, beatAge, service, timerAge, sweep, faults>>

AgentStops(n) ==
    /\ agentUp[n]
    /\ agentUp' = [agentUp EXCEPT ![n] = FALSE]
    /\ sendAge' = [sendAge EXCEPT ![n] = 0]
    /\ UNCHANGED <<isHealthy, beatAge, beats, service, timerAge, sweep, starts, faults>>

SendBeat(n) ==
    /\ agentUp[n]
    /\ sendAge[n] = Interval
    /\ sendAge' = [sendAge EXCEPT ![n] = 0]
    /\ Send(n)
    /\ UNCHANGED <<isHealthy, beatAge, agentUp, service, timerAge, sweep, starts, faults>>

----------------------------------------------------------------------------
(* POST /nodes/:name/heartbeat.                                            *)

\* findByName found the node; the new timestamp is taken.
StampBeat(b) ==
    /\ b.stage = "lookup"
    /\ beats' = (beats \ {b}) \union {[b EXCEPT !.stage = "write", !.age = 0]}
    /\ UNCHANGED <<isHealthy, beatAge, agentUp, sendAge, service, timerAge, sweep, starts, faults>>

\* Slip: the beat is recorded, the node is not made healthy again.
RecordBeatBug(b) ==
    /\ b.stage = "write"
    /\ beatAge' = [beatAge EXCEPT ![b.node] = b.age]
    /\ beats' = beats \ {b}
    /\ UNCHANGED <<isHealthy, agentUp, sendAge, service, timerAge, sweep, starts, faults>>

\* setHealth.  Two requests may be written in either order: the timestamp can go back.
RecordBeat(b) ==
    /\ b.stage = "write"
    /\ isHealthy' = [isHealthy EXCEPT ![b.node] = TRUE]
    /\ beatAge' = [beatAge EXCEPT ![b.node] = b.age]
    /\ beats' = beats \ {b}
    /\ UNCHANGED <<agentUp, sendAge, service, timerAge, sweep, starts, faults>>

\* The request or one of its queries fails; the agent only logs it.
LoseBeat(b) ==
    /\ Fault
    /\ beats' = beats \ {b}
    /\ UNCHANGED <<isHealthy, beatAge, agentUp, sendAge, service, timerAge, sweep, starts>>

----------------------------------------------------------------------------
(* HeartbeatMonitor.sweepOnce.                                             *)

SweepStarts(s) ==
    /\ serviceUp
    /\ timerAge = SweepEvery
    /\ sweep[s].stage = "idle"
    /\ timerAge' = 0
    /\ sweep' = [sweep EXCEPT ![s] = [NoSweep EXCEPT !.stage = "read"]]
    /\ UNCHANGED <<isHealthy, beatAge, agentUp, sendAge, beats, service, starts, faults>>

\* now - lastBeat > staleMs, where now was taken when the sweep started.
IsStale(s, n) == beatAge[n] - sweep[s].age > Stale

MarkNext(s, stale) ==
    sweep' = [sweep EXCEPT ![s] =
        IF stale = {} THEN NoSweep ELSE [stage |-> "mark", age |-> 0, stale |-> stale]]

\* Slip: only the first stale node of a sweep is marked.
ReadNodesBug(s) ==
    LET stale == {n \in Nodes : isHealthy[n] /\ IsStale(s, n)} IN
    /\ sweep[s].stage = "read"
    /\ MarkNext(s, IF stale = {} THEN {} ELSE {CHOOSE n \in stale : TRUE})
    /\ UNCHANGED <<isHealthy, beatAge, agentUp, sendAge, beats, service, timerAge, starts, faults>>

\* Slip: half the staleness window is used.
ReadNodesEarlyBug(s) ==
    /\ sweep[s].stage = "read"
    /\ MarkNext(s, {n \in Nodes : isHealthy[n] /\ 2 * (beatAge[n] - sweep[s].age) > Stale})
    /\ UNCHANGED <<isHealthy, beatAge, agentUp, sendAge, beats, service, timerAge, starts, faults>>

\* Slip: unhealthy nodes are kept, healthy ones passed over.
ReadNodesNoneBug(s) ==
    /\ sweep[s].stage = "read"
    /\ MarkNext(s, {n \in Nodes : ~isHealthy[n] /\ IsStale(s, n)})
    /\ UNCHANGED <<isHealthy, beatAge, agentUp, sendAge, beats, service, timerAge, starts, faults>>

\* listAll; the loop then works on what was read.
ReadNodes(s) ==
    /\ sweep[s].stage = "read"
    /\ MarkNext(s, {n \in Nodes : isHealthy[n] /\ IsStale(s, n)})
    /\ UNCHANGED <<isHealthy, beatAge, agentUp, sendAge, beats, service, timerAge, starts, faults>>

\* markStale sets is_healthy to false whatever was recorded since the read.
MarkStale(s, n) ==
    /\ sweep[s].stage = "mark"
    /\ n \in sweep[s].stale
    /\ isHealthy' = [isHealthy EXCEPT ![n] = FALSE]
    /\ MarkNext(s, sweep[s].stale \ {n})
    /\ UNCHANGED <<beatAge, agentUp, sendAge, beats, service, timerAge, starts, faults>>

\* A query fails: the rest of the sweep is given up.
SweepFails(s) ==
    /\ sweep[s].stage # "idle"
    /\ Fault
    /\ failed' = failed + 1
    /\ sweep' = [sweep EXCEPT ![s] = NoSweep]
    /\ UNCHANGED <<isHealthy, beatAge, agentUp, sendAge, beats, serviceUp, upAge, timerAge, starts>>

----------------------------------------------------------------------------
(* The service.                                                            *)

\* main has made the buckets, subscribed, armed the timer and listens.
ServiceStarts ==
    /\ ~serviceUp
    /\ serviceUp' = TRUE
    /\ UNCHANGED <<isHealthy, beatAge, agentUp, sendAge, beats, upAge, timerAge, sweep,
                   failed, starts, faults>>

\* The process ends: its timer, its sweeps and the requests it was answering are gone.
Crash ==
    /\ serviceUp
    /\ Fault
    /\ serviceUp' = FALSE
    /\ upAge' = 0
    /\ timerAge' = 0
    /\ sweep' = [s \in Sweeps |-> NoSweep]
    /\ failed' = 0
    /\ beats' = {}
    /\ UNCHANGED <<isHealthy, beatAge, agentUp, sendAge, starts>>

----------------------------------------------------------------------------
(* Time.                                                                   *)

Older(age, bound) == IF age < bound THEN age + 1 ELSE bound

\* Slip: the monitor's timer is not armed for good, and may be missed.
NothingDueBug ==
    /\ \A n \in Nodes : agentUp[n] => sendAge[n] < Interval
    /\ \A b \in beats : b.age < MaxDelay
    /\ \A s \in Sweeps : sweep[s].stage # "idle" => sweep[s].age < MaxDelay

NothingDue ==
    /\ \A n \in Nodes : agentUp[n] => sendAge[n] < Interval
    /\ \A b \in beats : b.age < MaxDelay
    /\ serviceUp => timerAge < SweepEvery
    /\ \A s \in Sweeps : sweep[s].stage # "idle" => sweep[s].age < MaxDelay

Tick ==
    /\ NothingDue
    /\ beatAge' = [n \in Nodes |-> Older(beatAge[n], MaxAge)]
    /\ sendAge' = [n \in Nodes |-> IF agentUp[n] THEN sendAge[n] + 1 ELSE 0]
    /\ beats' = {[b EXCEPT !.age = @ + 1] : b \in beats}
    /\ upAge' = IF serviceUp THEN Older(upAge, MaxAge - Stale) ELSE 0
    /\ timerAge' = IF serviceUp THEN timerAge + 1 ELSE 0
    /\ sweep' = [s \in Sweeps |-> IF sweep[s].stage = "idle" THEN sweep[s]
                                  ELSE [sweep[s] EXCEPT !.age = @ + 1]]
    /\ UNCHANGED <<isHealthy, agentUp, serviceUp, failed, starts, faults>>

Next ==
    \/ \E n \in Nodes : AgentStarts(n) \/ AgentStops(n) \/ SendBeat(n)
    \/ \E b \in beats : StampBeat(b) \/ RecordBeat(b) \/ LoseBeat(b)
    \/ \E s \in Sweeps : SweepStarts(s) \/ ReadNodes(s) \/ SweepFails(s)
                         \/ \E n \in Nodes : MarkStale(s, n)
    \/ ServiceStarts \/ Crash
    \/ Tick

Spec == Init /\ [][Next]_vars

\* What the timers and the pending calls do without a failure.
TimeGoesOn ==
    \/ Tick
    \/ \E n \in Nodes : SendBeat(n)
    \/ \E b \in beats : StampBeat(b) \/ RecordBeat(b)
    \/ \E s \in Sweeps : SweepStarts(s) \/ ReadNodes(s) \/ \E n \in Nodes : MarkStale(s, n)

\* Time goes on, and it does not pass a timer or a call that is due; a service that is down
\* is in the end started again (by its Deployment).  Agents start, stop, and requests fail
\* as they please.
FairSpec ==
    /\ Spec
    /\ WF_vars(TimeGoesOn)
    /\ WF_vars(ServiceStarts)

----------------------------------------------------------------------------
(* Properties.                                                             *)

TypeOK ==
    /\ isHealthy \in [Nodes -> BOOLEAN]
    /\ beatAge \in [Nodes -> 0..MaxAge]
    /\ agentUp \in [Nodes -> BOOLEAN]
    /\ sendAge \in [Nodes -> 0..Interval]
    /\ beats \subseteq Requests
    /\ serviceUp \in BOOLEAN
    /\ upAge \in 0..(MaxAge - Stale)
    /\ timerAge \in 0..SweepEvery
    /\ sweep \in [Sweeps -> SweepStates]
    /\ starts \in 0..MaxStarts
    /\ faults \in 0..MaxFaults
    /\ failed \in 0..faults

\* How much of a node's silence the monitor can be blamed for: one that began before the
\* service started counts as just stale at that moment.
Silence(n) == IF beatAge[n] <= Stale + upAge THEN beatAge[n] ELSE Stale + upAge

\* Detection latency: however long the service was down, once it runs no node is believed
\* healthy longer than the window, one sweep interval and the time of a sweep (the last
\* two once more for each sweep that has failed since it started).
SilenceIsDetected ==
    \A n \in Nodes :
        isHealthy[n] => Silence(n) <= Latency(failed)

\* A node is retired either after a silence longer than the window or, by a sweep
\* overtaken by a heartbeat, within a sweep's time of that beat: never in between.
RetiredForCause ==
    [][\A n \in Nodes : isHealthy[n] /\ ~isHealthy'[n] =>
            beatAge[n] > Stale \/ beatAge[n] <= SweepTime]_vars

\* The window as the documentation has it: only a node with no beat in it is retired.
OnlySilentRetired ==
    [][\A n \in Nodes : isHealthy[n] /\ ~isHealthy'[n] => beatAge[n] > Stale]_vars

\* A node whose agent keeps running is in the end trusted for good: a beat that a
\* sweep overwrote is made up for, and sweeps stop retiring it.
RunningNodesTrusted ==
    \A n \in Nodes : <>[]agentUp[n] => <>[]isHealthy[n]

\* A node whose agent stays down is in the end retired for good, late beats included.
StoppedNodesRetired ==
    \A n \in Nodes : <>[]~agentUp[n] => <>[]~isHealthy[n]
============================================================================
