-------------------------- MODULE NodeHealth_proofs --------------------------
(***************************************************************************)
(* Proofs about NodeHealth, for any number of nodes and of overlapping     *)
(* sweeps, any timing that fits TimingAssumption and any number of faults. *)
(*                                                                         *)
(* The argument is a budget of time: a sweep in progress has TimeLeft(s)   *)
(* to go at most, and what a node's silence and the time left of the sweep *)
(* that is about to retire it come to does not grow, as one goes up by a   *)
(* tick at most when the other goes down by one.  A silence counts only    *)
(* for as long as the monitor has run, so a crash and the time the service *)
(* is down cost nothing.  That retirements cease and that running nodes    *)
(* are trusted are liveness properties and stay with TLC.                  *)
(***************************************************************************)
EXTENDS NodeHealth, FiniteSetTheorems, TLAPS

\* A sweep still has to read, and to mark every node, or to mark those that are left.
TimeLeft(s) ==
    IF sweep[s].stage = "read" THEN SweepTime - sweep[s].age
                               ELSE Cardinality(sweep[s].stale) * MaxDelay - sweep[s].age

\* What the sweeps that failed may have added to a silence.
Slack(f) == f * (SweepEvery + SweepTime)

\* Sweep s retires n, unless it fails first: it will read n as stale, or has done so.
WillRetire(s, n) ==
    \/ sweep[s].stage = "read" /\ IsStale(s, n)
    \/ sweep[s].stage = "mark" /\ n \in sweep[s].stale

\* A node believed healthy was not yet stale for the last sweep that was started and came
\* to its end, or a sweep in progress retires it in time.
SilencesFit ==
    \A n \in Nodes :
        isHealthy[n] =>
            \/ Silence(n) <= Stale + timerAge + Slack(failed)
            \/ \E s \in Sweeps :
                /\ WillRetire(s, n)
                /\ Silence(n) + TimeLeft(s) <= Latency(failed)

\* A node that a sweep is about to mark is silent for longer than the window, or its last
\* beat came while the sweep was marking.
MarksFit ==
    \A s \in Sweeps : \A n \in Nodes :
        sweep[s].stage = "mark" /\ n \in sweep[s].stale =>
            beatAge[n] > Stale \/ beatAge[n] + TimeLeft(s) <= SweepTime

\* The inductive invariant.
IInv == TypeOK /\ SilencesFit /\ MarksFit

----------------------------------------------------------------------------
(* Arithmetic.                                                             *)

LEMMA Products ==
    ASSUME NEW k \in Nat, NEW m \in Nat, NEW d \in Nat
    PROVE  /\ k * d \in Nat
           /\ (k + 1) * d = k * d + d
           /\ k <= m => k * d <= m * d
<1>1. k <= m => k * d <= m * d
  <2> SUFFICES ASSUME k <= m PROVE k * d <= m * d
    OBVIOUS
  <2>1. m - k \in Nat /\ (m - k) * d \in Nat
    OBVIOUS
  <2>2. m * d = k * d + (m - k) * d
    OBVIOUS
  <2> QED
    BY <2>1, <2>2
<1> QED
  BY <1>1

\* Two ages that grow by one at most: so does the smaller, one counted from k on.
Shorter(k, a, b) == IF a <= k + b THEN a ELSE k + b

LEMMA ShorterGrows ==
    \A k, a, b, c, d \in Nat :
        c <= a + 1 /\ d <= b + 1 =>
            /\ Shorter(k, a, b) \in Nat /\ Shorter(k, c, d) \in Nat
            /\ Shorter(k, c, d) <= Shorter(k, a, b) + 1
BY DEF Shorter

LEMMA Durations ==
    /\ Interval \in Nat /\ Stale \in Nat /\ SweepEvery \in Nat /\ MaxDelay \in Nat
    /\ MaxStarts \in Nat /\ MaxFaults \in Nat
    /\ Interval > 0 /\ SweepEvery > 0 /\ MaxDelay > 0 /\ MaxDelay < Stale
    /\ Cardinality(Nodes) \in Nat
    /\ SweepTime \in Nat
    /\ SweepTime = Cardinality(Nodes) * MaxDelay + MaxDelay
<1>1. /\ Interval \in Nat /\ Stale \in Nat /\ SweepEvery \in Nat /\ MaxDelay \in Nat
      /\ MaxStarts \in Nat /\ MaxFaults \in Nat
      /\ Interval > 0 /\ SweepEvery > 0 /\ MaxDelay > 0
  BY TimingAssumption
<1>2. MaxDelay < Stale
  BY <1>1, TimingAssumption
<1>3. Cardinality(Nodes) \in Nat
  BY TimingAssumption, FS_CardinalityType
<1> QED
  BY <1>1, <1>2, <1>3, Products DEF SweepTime

\* Each fault allows one more sweep interval and one more sweep.
LEMMA SlackGrows ==
    ASSUME NEW f \in Nat
    PROVE  /\ Slack(f) \in Nat
           /\ Slack(f + 1) = Slack(f) + SweepEvery + SweepTime
           /\ Latency(f) = Stale + SweepEvery + SweepTime + Slack(f)
           /\ Latency(f) \in Nat
           /\ f <= MaxFaults => Latency(f) < MaxAge
<1> DEFINE d == SweepEvery + SweepTime
<1>1. d \in Nat /\ Stale \in Nat /\ MaxFaults \in Nat /\ SweepEvery \in Nat /\ SweepTime \in Nat
  BY Durations
<1>2. \A g \in Nat : Slack(g) = g * d /\ Latency(g) = Stale + (g + 1) * d
  <2>1. \A g \in Nat : 1 + g = g + 1
    OBVIOUS
  <2> QED
    BY <2>1 DEF Slack, Latency
<1> HIDE DEF d
<1>3. \A g \in Nat : g * d \in Nat /\ (g + 1) * d = g * d + d
  BY <1>1, Products
<1>4. f <= MaxFaults => f * d <= MaxFaults * d
  BY <1>1, Products
<1>5. /\ Slack(f) \in Nat /\ Slack(f) = f * d
      /\ Slack(f + 1) = Slack(f) + d
      /\ Latency(f) = Stale + d + Slack(f)
      /\ Latency(f) \in Nat
      /\ Latency(MaxFaults) \in Nat
      /\ Latency(MaxFaults) = Stale + d + MaxFaults * d
      /\ MaxFaults * d \in Nat
  BY <1>1, <1>2, <1>3
<1>6. f <= MaxFaults => Latency(f) < MaxAge
  BY <1>1, <1>4, <1>5 DEF MaxAge
<1> QED
  BY <1>1, <1>5, <1>6 DEF d

LEMMA AgesFit == MaxAge \in Nat /\ Stale < MaxAge /\ Stale + MaxDelay < MaxAge
<1>1. 0 \in Nat /\ 0 <= MaxFaults /\ MaxFaults \in Nat /\ Stale \in Nat
  BY Durations
<1>2. Latency(MaxFaults) \in Nat /\ Latency(MaxFaults) = Stale + SweepEvery + SweepTime + Slack(MaxFaults)
      /\ Slack(MaxFaults) \in Nat
  BY <1>1, SlackGrows
<1> QED
  BY <1>1, <1>2, Durations DEF MaxAge

LEMMA SilenceFits ==
    ASSUME TypeOK, NEW n \in Nodes
    PROVE  /\ beatAge[n] \in Nat /\ upAge \in Nat /\ Stale \in Nat
           /\ Silence(n) \in Nat
           /\ Silence(n) <= beatAge[n] /\ Silence(n) <= Stale + upAge
<1>1. beatAge[n] \in Nat /\ upAge \in Nat /\ Stale \in Nat
  BY AgesFit, Durations DEF TypeOK
<1> QED
  BY <1>1 DEF Silence

\* What is left of a sweep is never negative while it has something to mark, and what is
\* left of marking is a step shorter than the sweep.
LEMMA TimeLeftFits ==
    ASSUME TypeOK, NEW s \in Sweeps
    PROVE  /\ sweep[s].stage = "read" => TimeLeft(s) \in Nat
           /\ sweep[s].stage = "mark" /\ sweep[s].stale # {} => TimeLeft(s) \in Nat
           /\ sweep[s].stage = "mark" => TimeLeft(s) \in Int /\ TimeLeft(s) <= SweepTime - MaxDelay
<1> DEFINE k == Cardinality(sweep[s].stale)
<1>1. sweep[s].age \in 0..MaxDelay /\ sweep[s].stale \subseteq Nodes
  BY DEF TypeOK, SweepStates
<1>2. k \in Nat /\ k <= Cardinality(Nodes)
  BY <1>1, TimingAssumption, FS_Subset, FS_CardinalityType
<1>3. sweep[s].stale # {} => k >= 1
  BY <1>1, <1>2, TimingAssumption, FS_Subset, FS_EmptySet
<1> HIDE DEF k
<1>4. /\ k * MaxDelay \in Nat
      /\ k * MaxDelay <= Cardinality(Nodes) * MaxDelay
      /\ k >= 1 => MaxDelay <= k * MaxDelay
  <2>1. k >= 1 => 1 * MaxDelay <= k * MaxDelay
    BY <1>2, Durations, Products
  <2>2. 1 * MaxDelay = MaxDelay
    BY Durations
  <2> QED
    BY <1>2, <2>1, <2>2, Durations, Products
<1>5. Cardinality(Nodes) * MaxDelay \in Nat
  BY Durations, Products
<1>6. sweep[s].stage = "read" => TimeLeft(s) = SweepTime - sweep[s].age
  BY DEF TimeLeft
<1>7. sweep[s].stage = "mark" => TimeLeft(s) = k * MaxDelay - sweep[s].age
  BY DEF TimeLeft, k
<1> QED
  BY <1>1, <1>3, <1>4, <1>5, <1>6, <1>7, Durations

----------------------------------------------------------------------------
(* Types.                                                                  *)

LEMMA InitFits == Init => IInv
<1> SUFFICES ASSUME Init PROVE IInv
  OBVIOUS
<1>1. TypeOK
  <2>1. 0 \in 0..MaxAge /\ 0 \in 0..(MaxAge - Stale)
    BY Durations, AgesFit
  <2>2. sweep \in [Sweeps -> SweepStates]
    BY Durations DEF Init, NoSweep, SweepStates
  <2>3. 0 \in 0..Interval /\ 0 \in 0..SweepEvery /\ 0 \in 0..MaxStarts /\ 0 \in 0..MaxFaults /\ 0 \in 0..0
    BY Durations
  <2>4. /\ isHealthy \in [Nodes -> BOOLEAN] /\ agentUp \in [Nodes -> BOOLEAN]
        /\ serviceUp \in BOOLEAN
    BY ZenonT(30) DEF Init
  <2>5. /\ beatAge \in [Nodes -> 0..MaxAge] /\ sendAge \in [Nodes -> 0..Interval]
        /\ beats \subseteq Requests
    BY <2>1, <2>3 DEF Init
  <2>6. /\ upAge \in 0..(MaxAge - Stale) /\ timerAge \in 0..SweepEvery /\ starts \in 0..MaxStarts
        /\ faults \in 0..MaxFaults /\ failed \in 0..faults
    BY <2>1, <2>3 DEF Init
  <2> QED
    BY <2>2, <2>4, <2>5, <2>6 DEF TypeOK
<1>2. SilencesFit
  <2>1. Slack(failed) \in Nat /\ failed \in Nat
    BY SlackGrows DEF Init
  <2>2. \A n \in Nodes : beatAge[n] = 0 /\ timerAge = 0 /\ Silence(n) = 0
    BY Durations DEF Init, Silence
  <2> QED
    BY <2>1, <2>2, Durations DEF SilencesFit
<1>3. MarksFit
  BY DEF Init, NoSweep, MarksFit
<1> QED
  BY <1>1, <1>2, <1>3 DEF IInv

LEMMA TypesStep ==
    ASSUME TypeOK, [Next]_vars
    PROVE  TypeOK'
<1>1. ASSUME NEW n \in Nodes, AgentStarts(n)
      PROVE  TypeOK'
  BY <1>1, Durations DEF AgentStarts, Send, TypeOK, Requests, NewRequest, service
<1>2. ASSUME NEW n \in Nodes, AgentStops(n)
      PROVE  TypeOK'
  BY <1>2, Durations DEF AgentStops, TypeOK, service
<1>3. ASSUME NEW n \in Nodes, SendBeat(n)
      PROVE  TypeOK'
  BY <1>3, Durations DEF SendBeat, Send, TypeOK, Requests, NewRequest, service
<1>4. ASSUME NEW b \in beats, StampBeat(b)
      PROVE  TypeOK'
  <2>1. [b EXCEPT !.stage = "write", !.age = 0] \in Requests
    <3>1. b \in Requests /\ 0 \in 0..MaxDelay
      BY Durations DEF TypeOK
    <3> QED
      BY <3>1 DEF Requests
  <2> QED
    BY <1>4, <2>1 DEF StampBeat, TypeOK, service
<1>5. ASSUME NEW b \in beats, RecordBeat(b)
      PROVE  TypeOK'
  <2>1. b.node \in Nodes /\ b.age \in 0..MaxAge
    BY Durations, AgesFit DEF TypeOK, Requests
  <2> QED
    BY <1>5, <2>1 DEF RecordBeat, TypeOK, service
<1>6. ASSUME NEW b \in beats, LoseBeat(b)
      PROVE  TypeOK'
  BY <1>6, Durations DEF LoseBeat, Fault, TypeOK, service
<1>7. ASSUME NEW s \in Sweeps, NEW stale \in SUBSET Nodes, MarkNext(s, stale)
      PROVE  sweep' \in [Sweeps -> SweepStates]
  BY <1>7, Durations DEF MarkNext, NoSweep, TypeOK, SweepStates
<1>8. ASSUME NEW s \in Sweeps, SweepStarts(s)
      PROVE  TypeOK'
  BY <1>8, Durations DEF SweepStarts, NoSweep, TypeOK, SweepStates, service
<1>9. ASSUME NEW s \in Sweeps, ReadNodes(s)
      PROVE  TypeOK'
  <2>1. sweep' \in [Sweeps -> SweepStates]
    BY <1>7, <1>9 DEF ReadNodes
  <2> QED
    BY <1>9, <2>1 DEF ReadNodes, TypeOK, service
<1>10. ASSUME NEW s \in Sweeps, NEW n \in Nodes, MarkStale(s, n)
       PROVE  TypeOK'
  <2>1. sweep[s].stale \ {n} \in SUBSET Nodes
    BY DEF TypeOK, SweepStates
  <2>2. sweep' \in [Sweeps -> SweepStates]
    BY <1>7, <1>10, <2>1 DEF MarkStale
  <2> QED
    BY <1>10, <2>2 DEF MarkStale, TypeOK, service
<1>11. ASSUME NEW s \in Sweeps, SweepFails(s)
       PROVE  TypeOK'
  BY <1>11, Durations DEF SweepFails, Fault, NoSweep, TypeOK, SweepStates
<1>12. ASSUME ServiceStarts \/ Crash
       PROVE  TypeOK'
  <2>1. CASE ServiceStarts
    BY <2>1, Durations DEF ServiceStarts, TypeOK
  <2>2. CASE Crash
    <3>1. faults' \in 0..MaxFaults /\ 0 \in 0..faults' /\ 0 \in 0..MaxDelay /\ 0 \in 0..SweepEvery
      BY <2>2, Durations DEF Crash, Fault, TypeOK
    <3>2. 0 \in 0..(MaxAge - Stale)
      BY AgesFit, Durations
    <3>3. sweep' \in [Sweeps -> SweepStates]
      BY <2>2, <3>1 DEF Crash, NoSweep, SweepStates
    <3> QED
      BY <2>2, <3>1, <3>2, <3>3 DEF Crash, Fault, TypeOK
  <2> QED
    BY <1>12, <2>1, <2>2
<1>13. ASSUME Tick
       PROVE  TypeOK'
  <2>1. beatAge' \in [Nodes -> 0..MaxAge]
    BY <1>13, AgesFit DEF Tick, Older, TypeOK
  <2>2. sendAge' \in [Nodes -> 0..Interval]
    BY <1>13, Durations DEF Tick, NothingDue, TypeOK
  <2>3. beats' \subseteq Requests
    BY <1>13, Durations DEF Tick, NothingDue, TypeOK, Requests
  <2>4. timerAge' \in 0..SweepEvery
    BY <1>13, Durations DEF Tick, NothingDue, TypeOK
  <2>5. sweep' \in [Sweeps -> SweepStates]
    BY <1>13, Durations DEF Tick, NothingDue, TypeOK, SweepStates
  <2>6. upAge' \in 0..(MaxAge - Stale)
    BY <1>13, AgesFit, Durations DEF Tick, Older, TypeOK
  <2> QED
    BY <1>13, <2>1, <2>2, <2>3, <2>4, <2>5, <2>6 DEF Tick, TypeOK
<1>14. ASSUME UNCHANGED vars
       PROVE  TypeOK'
  BY <1>14 DEF vars, service, TypeOK
<1> QED
  BY <1>1, <1>2, <1>3, <1>4, <1>5, <1>6, <1>8, <1>9, <1>10, <1>11, <1>12, <1>13, <1>14
  DEF Next

----------------------------------------------------------------------------
(* Steps of the invariant.                                                 *)

\* The latency of detection, from the budget of each node.
LEMMA SilencesAreShort == IInv => SilenceIsDetected
<1> SUFFICES ASSUME IInv, NEW n \in Nodes, isHealthy[n]
             PROVE  Silence(n) <= Latency(failed)
  BY DEF SilenceIsDetected
<1>1. Silence(n) \in Nat /\ timerAge \in 0..SweepEvery /\ failed \in Nat
  BY Durations, SilenceFits DEF IInv, TypeOK
<1>2. /\ Slack(failed) \in Nat /\ Latency(failed) \in Nat
      /\ Latency(failed) = Stale + SweepEvery + SweepTime + Slack(failed)
  BY <1>1, SlackGrows
<1>3. CASE Silence(n) <= Stale + timerAge + Slack(failed)
  BY <1>1, <1>2, <1>3, Durations
<1>4. CASE \E s \in Sweeps : WillRetire(s, n) /\ Silence(n) + TimeLeft(s) <= Latency(failed)
  <2>1. PICK s \in Sweeps : WillRetire(s, n) /\ Silence(n) + TimeLeft(s) <= Latency(failed)
    BY <1>4
  <2>2. TimeLeft(s) \in Nat
    BY <2>1, TimeLeftFits DEF IInv, WillRetire
  <2> QED
    BY <1>1, <1>2, <2>1, <2>2
<1> QED
  BY <1>3, <1>4 DEF IInv, SilencesFit

\* What the agents and the requests do on their way, and the start of the service.
LEMMA QuietStep ==
    ASSUME IInv, UNCHANGED <<isHealthy, beatAge, upAge, timerAge, sweep, failed>>
    PROVE  SilencesFit' /\ MarksFit'
BY DEF IInv, SilencesFit, MarksFit, WillRetire, IsStale, TimeLeft, Silence

\* A sweep that fails makes one more of every silence.
LEMMA FailureStep ==
    ASSUME IInv, TypeOK', failed' = failed + 1, UNCHANGED <<isHealthy, beatAge, upAge>>
    PROVE  SilencesFit'
<1> SUFFICES ASSUME NEW n \in Nodes, isHealthy[n]
             PROVE  Silence(n)' <= Stale + timerAge' + Slack(failed')
  BY DEF SilencesFit
<1>1. Silence(n) \in Nat /\ timerAge' \in Nat /\ failed \in Nat /\ Silence(n)' = Silence(n)
  BY Durations, SilenceFits DEF IInv, TypeOK, Silence
<1>2. /\ Slack(failed) \in Nat
      /\ Slack(failed + 1) = Slack(failed) + SweepEvery + SweepTime
      /\ Latency(failed) = Stale + SweepEvery + SweepTime + Slack(failed)
  BY <1>1, SlackGrows
<1>3. Silence(n) <= Latency(failed)
  BY SilencesAreShort DEF SilenceIsDetected
<1>4. Silence(n)' <= Stale + timerAge' + Slack(failed + 1)
  BY <1>1, <1>2, <1>3, Durations
<1> QED
  BY <1>1, <1>4

\* While the service is down, or has just crashed, no silence counts for more than just
\* stale.
LEMMA DownStep ==
    ASSUME TypeOK', upAge' = 0
    PROVE  SilencesFit'
<1> SUFFICES ASSUME NEW n \in Nodes
             PROVE  Silence(n)' <= Stale + timerAge' + Slack(failed')
  BY DEF SilencesFit
<1>1. timerAge' \in Nat /\ failed' \in Nat /\ Stale \in Nat /\ beatAge'[n] \in Nat
  BY Durations, AgesFit DEF TypeOK
<1>2. Slack(failed') \in Nat
  BY <1>1, SlackGrows
<1>3. Silence(n)' \in Nat /\ Silence(n)' <= Stale
  BY <1>1 DEF Silence
<1> QED
  BY <1>1, <1>2, <1>3

\* A sweep that ends leaves what the others are to mark as it was.
LEMMA SweepEnds ==
    ASSUME IInv, NEW s \in Sweeps, UNCHANGED beatAge,
           sweep' = [sweep EXCEPT ![s] = NoSweep]
    PROVE  MarksFit'
<1> SUFFICES ASSUME NEW t \in Sweeps, NEW n \in Nodes,
                    sweep'[t].stage = "mark", n \in sweep'[t].stale
             PROVE  beatAge'[n] > Stale \/ beatAge'[n] + TimeLeft(t)' <= SweepTime
  BY DEF MarksFit
<1>1. t # s /\ sweep'[t] = sweep[t]
  BY DEF IInv, TypeOK, NoSweep
<1>2. TimeLeft(t)' = TimeLeft(t)
  BY <1>1 DEF TimeLeft
<1> QED
  BY <1>1, <1>2 DEF IInv, MarksFit

\* A recorded beat opens a new silence, whatever the sweeps have read.
LEMMA BeatStep ==
    ASSUME IInv, NEW b \in beats, RecordBeat(b)
    PROVE  SilencesFit' /\ MarksFit'
<1>1. b.node \in Nodes /\ b.age \in 0..MaxDelay
  BY DEF IInv, TypeOK, Requests
<1>2. \A n \in Nodes : n # b.node => beatAge'[n] = beatAge[n] /\ isHealthy'[n] = isHealthy[n]
  BY <1>1 DEF RecordBeat, IInv, TypeOK
<1>3. beatAge'[b.node] = b.age
  BY <1>1 DEF RecordBeat, IInv, TypeOK
<1>4. UNCHANGED <<sweep, upAge, timerAge, failed>>
  BY DEF RecordBeat, service
<1>5. \A s \in Sweeps : TimeLeft(s)' = TimeLeft(s)
  BY <1>4 DEF TimeLeft
<1>6. SilencesFit'
  <2> SUFFICES ASSUME NEW n \in Nodes, isHealthy'[n]
               PROVE  \/ Silence(n)' <= Stale + timerAge' + Slack(failed')
                      \/ \E s \in Sweeps :
                          WillRetire(s, n)' /\ Silence(n)' + TimeLeft(s)' <= Latency(failed')
    BY DEF SilencesFit
  <2>1. CASE n = b.node
    <3>1. timerAge \in Nat /\ failed \in Nat /\ upAge \in Nat
      BY Durations, AgesFit DEF IInv, TypeOK
    <3>2. Slack(failed) \in Nat
      BY <3>1, SlackGrows
    <3>3. Silence(n)' = b.age
      BY <1>1, <1>3, <1>4, <2>1, <3>1, Durations DEF Silence
    <3>4. b.age <= Stale + timerAge + Slack(failed)
      BY <1>1, <3>1, <3>2, Durations
    <3> QED
      BY <1>4, <3>3, <3>4
  <2>2. CASE n # b.node
    <3>1. \A s \in Sweeps : WillRetire(s, n)' <=> WillRetire(s, n)
      BY <1>2, <1>4, <2>2 DEF WillRetire, IsStale
    <3>2. isHealthy[n] /\ Silence(n)' = Silence(n)
      BY <1>2, <1>4, <2>2 DEF Silence
    <3> QED
      BY <1>4, <1>5, <3>1, <3>2 DEF IInv, SilencesFit
  <2> QED
    BY <2>1, <2>2
<1>7. MarksFit'
  <2> SUFFICES ASSUME NEW s \in Sweeps, NEW n \in Nodes,
                      sweep'[s].stage = "mark", n \in sweep'[s].stale
               PROVE  beatAge'[n] > Stale \/ beatAge'[n] + TimeLeft(s)' <= SweepTime
    BY DEF MarksFit
  <2>1. CASE n = b.node
    <3>1. TimeLeft(s) \in Int /\ TimeLeft(s) <= SweepTime - MaxDelay
      BY <1>4, TimeLeftFits DEF IInv
    <3>2. b.age + TimeLeft(s) <= SweepTime
      BY <1>1, <3>1, Durations
    <3> QED
      BY <1>3, <1>5, <2>1, <3>2
  <2>2. CASE n # b.node
    BY <1>2, <1>4, <1>5, <2>2 DEF IInv, MarksFit
  <2> QED
    BY <2>1, <2>2
<1> QED
  BY <1>6, <1>7

\* A starting sweep takes up every node whose silence has used up its interval.
LEMMA SweepStartsStep ==
    ASSUME IInv, NEW s \in Sweeps, SweepStarts(s)
    PROVE  SilencesFit' /\ MarksFit'
<1>1. /\ timerAge = SweepEvery /\ timerAge' = 0 /\ sweep[s].stage = "idle"
      /\ UNCHANGED <<isHealthy, beatAge, upAge, failed>>
  BY DEF SweepStarts, service
<1>2. sweep'[s].stage = "read" /\ sweep'[s].age = 0
  BY DEF SweepStarts, IInv, TypeOK, NoSweep
<1>3. \A t \in Sweeps : t # s => sweep'[t] = sweep[t]
  BY DEF SweepStarts, IInv, TypeOK
<1>4. \A t \in Sweeps : t # s => TimeLeft(t)' = TimeLeft(t)
  BY <1>3 DEF TimeLeft
<1>5. TimeLeft(s)' = SweepTime
  <2>1. TimeLeft(s)' = SweepTime - 0
    BY <1>2 DEF TimeLeft
  <2> QED
    BY <2>1, Durations
<1>6. SilencesFit'
  <2> SUFFICES ASSUME NEW n \in Nodes, isHealthy[n]
               PROVE  \/ Silence(n) <= Stale + timerAge' + Slack(failed)
                      \/ \E t \in Sweeps :
                          WillRetire(t, n)' /\ Silence(n) + TimeLeft(t)' <= Latency(failed)
    BY <1>1 DEF SilencesFit, Silence
  <2>1. /\ beatAge[n] \in Nat /\ failed \in Nat
        /\ Silence(n) \in Nat /\ Silence(n) <= beatAge[n]
    BY SilenceFits, Durations DEF IInv, TypeOK
  <2>2. /\ Slack(failed) \in Nat
        /\ Latency(failed) = Stale + SweepEvery + SweepTime + Slack(failed)
    BY <2>1, SlackGrows
  <2>3. CASE Silence(n) <= Stale
    BY <1>1, <2>1, <2>2, <2>3, Durations
  <2>4. CASE Silence(n) > Stale /\ Silence(n) <= Stale + timerAge + Slack(failed)
    <3>1. beatAge'[n] - sweep'[s].age > Stale
      BY <1>1, <1>2, <2>1, <2>4, Durations
    <3>2. WillRetire(s, n)'
      BY <1>2, <3>1 DEF WillRetire, IsStale
    <3>3. Silence(n) + SweepTime <= Latency(failed)
      BY <1>1, <2>1, <2>2, <2>4, Durations
    <3> QED
      BY <1>5, <2>1, <3>2, <3>3
  <2>5. ASSUME NEW t \in Sweeps, WillRetire(t, n), Silence(n) + TimeLeft(t) <= Latency(failed)
        PROVE  WillRetire(t, n)' /\ Silence(n) + TimeLeft(t)' <= Latency(failed)
    <3>1. t # s
      BY <1>1, <2>5 DEF WillRetire
    <3> QED
      BY <1>1, <1>3, <1>4, <2>1, <2>5, <3>1 DEF WillRetire, IsStale
  <2>6. Silence(n) <= Stale \/ Silence(n) > Stale
    BY <2>1, Durations
  <2> QED
    BY <2>3, <2>4, <2>5, <2>6 DEF IInv, SilencesFit
<1>7. MarksFit'
  BY <1>1, <1>2, <1>3, <1>4 DEF IInv, MarksFit
<1> QED
  BY <1>6, <1>7

\* What a sweep read as stale it will mark, in the time it had left.
LEMMA ReadNodesStep ==
    ASSUME IInv, NEW s \in Sweeps, ReadNodes(s)
    PROVE  SilencesFit' /\ MarksFit'
<1> DEFINE stale == {n \in Nodes : isHealthy[n] /\ IsStale(s, n)}
<1>1. /\ sweep[s].stage = "read"
      /\ UNCHANGED <<isHealthy, beatAge, upAge, timerAge, failed>>
      /\ MarkNext(s, stale)
  BY DEF ReadNodes, service
<1>2. \A n \in Nodes : n \in stale <=> isHealthy[n] /\ IsStale(s, n)
  OBVIOUS
<1>3. stale \subseteq Nodes
  OBVIOUS
<1> HIDE DEF stale
<1>4. stale # {} => sweep'[s] = [stage |-> "mark", age |-> 0, stale |-> stale]
  BY <1>1 DEF MarkNext, IInv, TypeOK
<1>5. stale = {} => sweep'[s].stage = "idle"
  BY <1>1 DEF MarkNext, NoSweep, IInv, TypeOK
<1>6. \A t \in Sweeps : t # s => sweep'[t] = sweep[t]
  BY <1>1 DEF MarkNext, IInv, TypeOK
<1>7. \A t \in Sweeps : t # s => TimeLeft(t)' = TimeLeft(t)
  BY <1>6 DEF TimeLeft
<1>8. stale # {} => TimeLeft(s)' \in Nat /\ TimeLeft(s)' <= TimeLeft(s)
  <2> SUFFICES ASSUME stale # {}
               PROVE  TimeLeft(s)' \in Nat /\ TimeLeft(s)' <= TimeLeft(s)
    OBVIOUS
  <2>1. Cardinality(stale) \in Nat /\ Cardinality(stale) <= Cardinality(Nodes)
    BY <1>3, TimingAssumption, FS_Subset, FS_CardinalityType
  <2>2. TimeLeft(s)' = Cardinality(stale) * MaxDelay - 0
    BY <1>4 DEF TimeLeft
  <2>3. Cardinality(stale) * MaxDelay \in Nat
    BY <2>1, Durations, Products
  <2>4. Cardinality(stale) * MaxDelay <= Cardinality(Nodes) * MaxDelay
    BY <2>1, Durations, Products
  <2>5. Cardinality(Nodes) * MaxDelay \in Nat
    BY Durations, Products
  <2>6. TimeLeft(s) = SweepTime - sweep[s].age /\ sweep[s].age \in 0..MaxDelay
    BY <1>1 DEF TimeLeft, IInv, TypeOK, SweepStates
  <2> QED
    BY <2>2, <2>3, <2>4, <2>5, <2>6, Durations
<1>9. SilencesFit'
  <2> SUFFICES ASSUME NEW n \in Nodes, isHealthy[n]
               PROVE  \/ Silence(n) <= Stale + timerAge + Slack(failed)
                      \/ \E t \in Sweeps :
                          WillRetire(t, n)' /\ Silence(n) + TimeLeft(t)' <= Latency(failed)
    BY <1>1 DEF SilencesFit, Silence
  <2>1. ASSUME NEW t \in Sweeps, WillRetire(t, n), Silence(n) + TimeLeft(t) <= Latency(failed)
        PROVE  WillRetire(t, n)' /\ Silence(n) + TimeLeft(t)' <= Latency(failed)
    <3>1. CASE t # s
      BY <1>1, <1>6, <1>7, <2>1, <3>1 DEF WillRetire, IsStale
    <3>2. CASE t = s
      <4>1. n \in stale
        BY <1>1, <1>2, <2>1, <3>2 DEF WillRetire
      <4>2. WillRetire(s, n)'
        BY <1>4, <4>1 DEF WillRetire
      <4>3. TimeLeft(s) \in Nat /\ Silence(n) \in Nat /\ Latency(failed) \in Int
        BY <1>1, TimeLeftFits, SlackGrows, SilenceFits, Durations, SMTT(30) DEF IInv, TypeOK
      <4>4. TimeLeft(s)' \in Nat /\ TimeLeft(s)' <= TimeLeft(s)
        BY <1>8, <4>1
      <4>5. Silence(n) + TimeLeft(s)' <= Latency(failed)
        BY <2>1, <3>2, <4>3, <4>4
      <4> QED
        BY <3>2, <4>2, <4>5
    <3> QED
      BY <3>1, <3>2
  <2> QED
    BY <2>1 DEF IInv, SilencesFit
<1>10. MarksFit'
  <2> SUFFICES ASSUME NEW t \in Sweeps, NEW n \in Nodes,
                      sweep'[t].stage = "mark", n \in sweep'[t].stale
               PROVE  beatAge[n] > Stale \/ beatAge[n] + TimeLeft(t)' <= SweepTime
    BY <1>1 DEF MarksFit
  <2>1. CASE t # s
    BY <1>6, <1>7, <2>1 DEF IInv, MarksFit
  <2>2. CASE t = s
    <3>1. stale # {}
      BY <1>5, <2>2
    <3>2. IsStale(s, n)
      BY <1>2, <1>4, <2>2, <3>1
    <3>3. beatAge[n] \in Nat /\ sweep[s].age \in 0..MaxDelay
      BY AgesFit DEF IInv, TypeOK, SweepStates
    <3>4. beatAge[n] > Stale
      BY <3>2, <3>3, Durations DEF IsStale
    <3> QED
      BY <3>4
  <2> QED
    BY <2>1, <2>2
<1> QED
  BY <1>9, <1>10

\* A mark takes a sweep no longer than a query may.
LEMMA MarkStaleStep ==
    ASSUME IInv, NEW s \in Sweeps, NEW m \in Nodes, MarkStale(s, m)
    PROVE  SilencesFit' /\ MarksFit'
<1> DEFINE left == sweep[s].stale \ {m}
<1>1. /\ sweep[s].stage = "mark" /\ m \in sweep[s].stale
      /\ isHealthy' = [isHealthy EXCEPT ![m] = FALSE]
      /\ UNCHANGED <<beatAge, upAge, timerAge, failed>>
      /\ MarkNext(s, left)
  BY DEF MarkStale, service
<1>2. \A n : n \in left <=> n \in sweep[s].stale /\ n # m
  OBVIOUS
<1>3. \A n \in Nodes : isHealthy'[n] => isHealthy[n] /\ n # m
  BY <1>1 DEF IInv, TypeOK
<1>4. sweep[s].stale \subseteq Nodes /\ sweep[s].age \in 0..MaxDelay
  BY DEF IInv, TypeOK, SweepStates
<1>5. Cardinality(left) \in Nat /\ Cardinality(sweep[s].stale) = Cardinality(left) + 1
  <2>1. IsFiniteSet(sweep[s].stale)
    BY <1>4, TimingAssumption, FS_Subset
  <2>2. IsFiniteSet(left) /\ Cardinality(left) = Cardinality(sweep[s].stale) - 1
    BY <1>1, <2>1, FS_RemoveElement
  <2>3. Cardinality(left) \in Nat /\ Cardinality(sweep[s].stale) \in Nat
    BY <2>1, <2>2, FS_CardinalityType
  <2> QED
    BY <2>2, <2>3
<1> HIDE DEF left
<1>6. left # {} => sweep'[s] = [stage |-> "mark", age |-> 0, stale |-> left]
  BY <1>1 DEF MarkNext, IInv, TypeOK
<1>7. left = {} => sweep'[s].stage = "idle"
  BY <1>1 DEF MarkNext, NoSweep, IInv, TypeOK
<1>8. \A t \in Sweeps : t # s => sweep'[t] = sweep[t]
  BY <1>1 DEF MarkNext, IInv, TypeOK
<1>9. \A t \in Sweeps : t # s => TimeLeft(t)' = TimeLeft(t)
  BY <1>8 DEF TimeLeft
<1>10. TimeLeft(s) \in Int
  BY <1>1, TimeLeftFits DEF IInv
<1>11. left # {} => TimeLeft(s)' \in Nat /\ TimeLeft(s)' <= TimeLeft(s)
  <2> SUFFICES ASSUME left # {}
               PROVE  TimeLeft(s)' \in Nat /\ TimeLeft(s)' <= TimeLeft(s)
    OBVIOUS
  <2>1. TimeLeft(s)' = Cardinality(left) * MaxDelay - 0
    BY <1>6 DEF TimeLeft
  <2>2. TimeLeft(s) = (Cardinality(left) + 1) * MaxDelay - sweep[s].age
    BY <1>1, <1>5 DEF TimeLeft
  <2>3. /\ Cardinality(left) * MaxDelay \in Nat
        /\ (Cardinality(left) + 1) * MaxDelay = Cardinality(left) * MaxDelay + MaxDelay
    BY <1>5, Durations, Products
  <2> QED
    BY <1>4, <2>1, <2>2, <2>3, Durations
<1>12. SilencesFit'
  <2> SUFFICES ASSUME NEW n \in Nodes, isHealthy'[n]
               PROVE  \/ Silence(n) <= Stale + timerAge + Slack(failed)
                      \/ \E t \in Sweeps :
                          WillRetire(t, n)' /\ Silence(n) + TimeLeft(t)' <= Latency(failed)
    BY <1>1 DEF SilencesFit, Silence
  <2>1. isHealthy[n] /\ n # m
    BY <1>3
  <2>2. ASSUME NEW t \in Sweeps, WillRetire(t, n), Silence(n) + TimeLeft(t) <= Latency(failed)
        PROVE  WillRetire(t, n)' /\ Silence(n) + TimeLeft(t)' <= Latency(failed)
    <3>1. CASE t # s
      BY <1>1, <1>8, <1>9, <2>2, <3>1 DEF WillRetire, IsStale
    <3>2. CASE t = s
      <4>1. n \in left
        BY <1>1, <1>2, <2>1, <2>2, <3>2 DEF WillRetire
      <4>2. WillRetire(s, n)'
        BY <1>6, <4>1 DEF WillRetire
      <4>3. Silence(n) \in Nat /\ Latency(failed) \in Int
        BY SlackGrows, SilenceFits, Durations, SMTT(30) DEF IInv, TypeOK
      <4>4. TimeLeft(s)' \in Nat /\ TimeLeft(s)' <= TimeLeft(s)
        BY <1>11, <4>1
      <4>5. Silence(n) + TimeLeft(s)' <= Latency(failed)
        BY <1>10, <2>2, <3>2, <4>3, <4>4
      <4> QED
        BY <3>2, <4>2, <4>5
    <3> QED
      BY <3>1, <3>2
  <2> QED
    BY <2>1, <2>2 DEF IInv, SilencesFit
<1>13. MarksFit'
  <2> SUFFICES ASSUME NEW t \in Sweeps, NEW n \in Nodes,
                      sweep'[t].stage = "mark", n \in sweep'[t].stale
               PROVE  beatAge[n] > Stale \/ beatAge[n] + TimeLeft(t)' <= SweepTime
    BY <1>1 DEF MarksFit
  <2>1. CASE t # s
    BY <1>8, <1>9, <2>1 DEF IInv, MarksFit
  <2>2. CASE t = s
    <3>1. left # {}
      BY <1>7, <2>2
    <3>2. n \in sweep[s].stale
      BY <1>2, <1>6, <2>2, <3>1
    <3>3. beatAge[n] > Stale \/ beatAge[n] + TimeLeft(s) <= SweepTime
      BY <1>1, <3>2 DEF IInv, MarksFit
    <3>4. beatAge[n] \in Nat
      BY AgesFit DEF IInv, TypeOK
    <3>5. TimeLeft(s)' \in Nat /\ TimeLeft(s)' <= TimeLeft(s)
      BY <1>11, <3>1
    <3> QED
      BY <1>10, <2>2, <3>3, <3>4, <3>5, Durations
  <2> QED
    BY <2>1, <2>2
<1> QED
  BY <1>12, <1>13

\* A tick lengthens a silence by as much as it shortens what a sweep has left to do.
LEMMA TickStep ==
    ASSUME IInv, Tick
    PROVE  SilencesFit' /\ MarksFit'
<1>1. /\ \A n \in Nodes : beatAge[n] \in 0..MaxAge /\ beatAge'[n] = Older(beatAge[n], MaxAge)
      /\ timerAge \in Nat /\ (serviceUp => timerAge' = timerAge + 1)
      /\ upAge' = IF serviceUp THEN Older(upAge, MaxAge - Stale) ELSE 0
      /\ failed \in Nat
      /\ UNCHANGED <<isHealthy, failed>>
  BY Durations DEF Tick, IInv, TypeOK
<1>2. \A n \in Nodes :
        /\ beatAge[n] \in Nat /\ beatAge'[n] \in Nat
        /\ beatAge'[n] <= beatAge[n] + 1
        /\ beatAge'[n] = beatAge[n] + 1 \/ beatAge'[n] = MaxAge
        /\ beatAge[n] > Stale => beatAge'[n] > Stale
  BY <1>1, AgesFit, Durations DEF Older
<1>3. \A s \in Sweeps : sweep[s].stage # "idle" =>
        /\ sweep'[s].stage = sweep[s].stage
        /\ sweep'[s].stale = sweep[s].stale
        /\ sweep[s].age \in Nat
        /\ sweep'[s].age = sweep[s].age + 1
  BY DEF Tick, IInv, TypeOK, SweepStates
<1>4. \A s \in Sweeps : sweep[s].stage = "idle" => sweep'[s] = sweep[s]
  BY DEF Tick
<1>5. ASSUME NEW s \in Sweeps, sweep[s].stage # "idle"
      PROVE  TimeLeft(s) \in Int /\ TimeLeft(s)' = TimeLeft(s) - 1
  <2>1. TimeLeft(s) \in Int
    BY <1>5, TimeLeftFits DEF IInv, TypeOK, SweepStates
  <2>2. CASE sweep[s].stage = "read"
    <3>1. TimeLeft(s) = SweepTime - sweep[s].age
      BY <2>2 DEF TimeLeft
    <3>2. TimeLeft(s)' = SweepTime - (sweep[s].age + 1)
      BY <1>3, <2>2 DEF TimeLeft
    <3> QED
      BY <1>3, <1>5, <2>1, <3>1, <3>2, Durations
  <2>3. CASE sweep[s].stage # "read"
    <3> DEFINE work == Cardinality(sweep[s].stale) * MaxDelay
    <3>1. TimeLeft(s) = work - sweep[s].age
      BY <2>3 DEF TimeLeft
    <3>2. TimeLeft(s)' = work - (sweep[s].age + 1)
      BY <1>3, <1>5, <2>3 DEF TimeLeft
    <3>3. work \in Nat
      <4>1. sweep[s].stale \subseteq Nodes
        BY DEF IInv, TypeOK, SweepStates
      <4>2. Cardinality(sweep[s].stale) \in Nat
        BY <4>1, TimingAssumption, FS_Subset, FS_CardinalityType
      <4> QED
        BY <4>2, Durations, Products
    <3> HIDE DEF work
    <3> QED
      BY <1>3, <1>5, <3>1, <3>2, <3>3
  <2> QED
    BY <2>1, <2>2, <2>3
<1>6. SilencesFit'
  <2>1. CASE ~serviceUp
    BY <1>1, <2>1, TypesStep, DownStep DEF IInv, Next
  <2>2. CASE serviceUp
    <3> SUFFICES ASSUME NEW n \in Nodes, isHealthy[n]
                 PROVE  \/ Silence(n)' <= Stale + (timerAge + 1) + Slack(failed)
                        \/ \E s \in Sweeps :
                            WillRetire(s, n)' /\ Silence(n)' + TimeLeft(s)' <= Latency(failed)
      BY <1>1, <2>2 DEF SilencesFit
    <3>1. Slack(failed) \in Nat /\ Latency(failed) \in Nat
      BY <1>1, SlackGrows
    <3>2. Silence(n) \in Nat /\ Silence(n)' \in Nat /\ Silence(n)' <= Silence(n) + 1
      <4>1. upAge \in Nat /\ upAge' \in Nat /\ upAge' <= upAge + 1 /\ Stale \in Nat
        BY <1>1, <2>2, AgesFit, Durations DEF Older, IInv, TypeOK
      <4>2. beatAge[n] \in Nat /\ beatAge'[n] \in Nat /\ beatAge'[n] <= beatAge[n] + 1
        BY <1>2
      <4>3. /\ Shorter(Stale, beatAge[n], upAge) \in Nat
            /\ Shorter(Stale, beatAge'[n], upAge') \in Nat
            /\ Shorter(Stale, beatAge'[n], upAge') <= Shorter(Stale, beatAge[n], upAge) + 1
        BY <4>1, <4>2, ShorterGrows
      <4>4. /\ Silence(n) = Shorter(Stale, beatAge[n], upAge)
            /\ Silence(n)' = Shorter(Stale, beatAge'[n], upAge')
        BY DEF Silence, Shorter
      <4> QED
        BY <4>3, <4>4
    <3>3. CASE Silence(n) <= Stale + timerAge + Slack(failed)
      BY <1>1, <3>1, <3>2, <3>3, Durations
    <3>4. ASSUME NEW s \in Sweeps, WillRetire(s, n), Silence(n) + TimeLeft(s) <= Latency(failed)
          PROVE  WillRetire(s, n)' /\ Silence(n)' + TimeLeft(s)' <= Latency(failed)
      <4>1. sweep[s].stage # "idle"
        BY <3>4 DEF WillRetire
      <4>2. sweep'[s].age \in 0..MaxDelay
        BY TypesStep DEF IInv, Next, TypeOK, SweepStates
      <4>3. IsStale(s, n) => IsStale(s, n)'
        BY <1>2, <1>3, <4>1, <4>2, AgesFit, Durations DEF IsStale
      <4>4. WillRetire(s, n)'
        BY <1>3, <3>4, <4>1, <4>3 DEF WillRetire
      <4>5. Silence(n)' + TimeLeft(s)' <= Silence(n) + TimeLeft(s)
        BY <1>5, <3>2, <4>1
      <4>6. Silence(n)' + TimeLeft(s)' <= Latency(failed)
        BY <1>5, <3>1, <3>2, <3>4, <4>1, <4>5
      <4> QED
        BY <4>4, <4>6
    <3> QED
      BY <3>3, <3>4 DEF IInv, SilencesFit
  <2> QED
    BY <2>1, <2>2
<1>7. MarksFit'
  <2> SUFFICES ASSUME NEW s \in Sweeps, NEW n \in Nodes,
                      sweep'[s].stage = "mark", n \in sweep'[s].stale
               PROVE  beatAge'[n] > Stale \/ beatAge'[n] + TimeLeft(s)' <= SweepTime
    BY DEF MarksFit
  <2>1. sweep[s].stage = "mark" /\ n \in sweep[s].stale
    BY <1>3, <1>4 DEF IInv, TypeOK, SweepStates
  <2>2. beatAge[n] > Stale \/ beatAge[n] + TimeLeft(s) <= SweepTime
    BY <2>1 DEF IInv, MarksFit
  <2>3. TimeLeft(s) \in Int /\ TimeLeft(s)' = TimeLeft(s) - 1
    BY <1>5, <2>1
  <2> QED
    BY <1>2, <2>2, <2>3, Durations
<1> QED
  BY <1>6, <1>7

LEMMA InvariantStep ==
    ASSUME IInv, [Next]_vars
    PROVE  IInv'
<1>1. TypeOK'
  BY TypesStep DEF IInv
<1>2. ASSUME NEW n \in Nodes, AgentStarts(n) \/ AgentStops(n) \/ SendBeat(n)
      PROVE  SilencesFit' /\ MarksFit'
  BY <1>2, QuietStep DEF AgentStarts, AgentStops, SendBeat, service
<1>3. ASSUME NEW b \in beats, StampBeat(b) \/ LoseBeat(b)
      PROVE  SilencesFit' /\ MarksFit'
  BY <1>3, QuietStep DEF StampBeat, LoseBeat, service
<1>4. ASSUME ServiceStarts
      PROVE  SilencesFit' /\ MarksFit'
  BY <1>4, QuietStep DEF ServiceStarts
<1>5. ASSUME NEW s \in Sweeps, SweepFails(s)
      PROVE  SilencesFit' /\ MarksFit'
  BY <1>1, <1>5, FailureStep, SweepEnds DEF SweepFails
<1>6. ASSUME Crash
      PROVE  SilencesFit' /\ MarksFit'
  <2>1. MarksFit'
    BY <1>6 DEF Crash, NoSweep, MarksFit
  <2> QED
    BY <1>1, <1>6, <2>1, DownStep DEF Crash
<1>7. ASSUME UNCHANGED vars
      PROVE  SilencesFit' /\ MarksFit'
  BY <1>7, QuietStep DEF vars, service
<1>8. SilencesFit' /\ MarksFit'
  BY <1>2, <1>3, <1>4, <1>5, <1>6, <1>7,
     BeatStep, SweepStartsStep, ReadNodesStep, MarkStaleStep, TickStep
  DEF Next
<1> QED
  BY <1>1, <1>8 DEF IInv

----------------------------------------------------------------------------
(* Theorems.                                                               *)

\* The invariant holds in every behaviour of the heartbeats and the sweeps.
THEOREM Inductive == Spec => []IInv
<1> QED
  BY InitFits, InvariantStep, PTL DEF Spec

\* Every behaviour keeps every variable in its type: no age of a request or of a sweep
\* outgrows the latency of a call, and no timer its interval.
THEOREM TypeCorrect == Spec => []TypeOK
<1>1. IInv => TypeOK
  BY DEF IInv
<1> QED
  BY <1>1, Inductive, PTL

\* However long the replication service was down, once its monitor runs no node is
\* believed healthy for longer than HEARTBEAT_STALE_MS, one sweep interval and the time
\* of one sweep over all nodes, the last two once more for each sweep that failed since
\* the service started, and however many sweeps overlap.
THEOREM SilencesAreDetected == Spec => []SilenceIsDetected
<1> QED
  BY SilencesAreShort, Inductive, PTL

\* sweepOnce retires a node for a silence longer than the window, or within the time of a
\* sweep after a beat that the sweep, which reads the nodes once, did not see.
THEOREM RetirementsHaveCause == Spec => RetiredForCause
<1> DEFINE ForCause(n) ==
      isHealthy[n] /\ ~isHealthy'[n] => beatAge[n] > Stale \/ beatAge[n] <= SweepTime
<1>1. ASSUME IInv, [Next]_vars, NEW n \in Nodes, isHealthy[n], ~isHealthy'[n]
      PROVE  beatAge[n] > Stale \/ beatAge[n] <= SweepTime
  <2>1. ASSUME NEW s \in Sweeps, NEW m \in Nodes, MarkStale(s, m)
        PROVE  beatAge[n] > Stale \/ beatAge[n] <= SweepTime
    <3>1. n = m /\ sweep[s].stage = "mark" /\ n \in sweep[s].stale
      BY <1>1, <2>1 DEF MarkStale, IInv, TypeOK
    <3>2. beatAge[n] > Stale \/ beatAge[n] + TimeLeft(s) <= SweepTime
      BY <1>1, <3>1 DEF IInv, MarksFit
    <3>3. TimeLeft(s) \in Nat /\ beatAge[n] \in Nat
      BY <1>1, <3>1, TimeLeftFits, AgesFit DEF IInv, TypeOK
    <3> QED
      BY <3>2, <3>3, Durations
  <2>2. ASSUME NEW b \in beats, RecordBeat(b)
        PROVE  FALSE
    BY <1>1, <2>2 DEF RecordBeat, IInv, TypeOK
  <2>3. \/ \E s \in Sweeps, m \in Nodes : MarkStale(s, m)
        \/ \E b \in beats : RecordBeat(b)
        \/ UNCHANGED isHealthy
    BY <1>1 DEF Next, AgentStarts, AgentStops, SendBeat, StampBeat, LoseBeat, SweepStarts,
       ReadNodes, SweepFails, ServiceStarts, Crash, Tick, vars
  <2> QED
    BY <1>1, <2>1, <2>2, <2>3
<1>2. IInv /\ [Next]_vars => [\A n \in Nodes : ForCause(n)]_vars
  BY <1>1
<1> QED
  BY <1>2, Inductive, PTL DEF Spec, RetiredForCause
=============================================================================
