------------------------------ MODULE EventBus ------------------------------
(***************************************************************************)
(* Domain events: the publisher's side in storage-service (a download ends *)
(* with file.accessed, an upload with chunk.uploaded), the topic exchange  *)
(* with one durable queue per subscription, and the subscribers            *)
(* ai-analytics-service, which counts accesses, and notification-service,  *)
(* which creates a notification per event.  Every subscription handles one *)
(* message at a time (prefetch 1) and acknowledges after the handler.      *)
(*                                                                         *)
(* A process may end at any time; a connection to the broker may also      *)
(* close while its process goes on: nothing reconnects, so the process     *)
(* stays without messages, or ends when it tries to acknowledge one.       *)
(*                                                                         *)
(* Not covered: replication-service's handler, which Replication models.   *)
(***************************************************************************)
EXTENDS Integers, FiniteSets, Sequences, Functions

CONSTANTS
    Events,             \* the downloads and uploads
    Key,                \* Key[e]: the routing key of the event
    File,               \* File[e]: the file of the event
    Subscriptions,      \* queues, one per service and routing key
    Binding,            \* Binding[s]: the routing key s is bound with
    Process,            \* Process[s]: the process that consumes s
    Analytics,          \* ai-analytics-service's subscription
    MaxFaults           \* bound: crashes, closed connections, failed calls

Accessed == "file.accessed"
Uploaded == "chunk.uploaded"
Files == {File[e] : e \in Events}
Processes == {Process[s] : s \in Subscriptions}

ASSUME EventAssumption ==
    /\ Key \in [Events -> {Accessed, Uploaded}]
    /\ DOMAIN File = Events
    /\ Binding \in [Subscriptions -> {Accessed, Uploaded}]
    /\ DOMAIN Process = Subscriptions
    /\ Analytics \in Subscriptions /\ Binding[Analytics] = Accessed
    /\ \A s \in Subscriptions : Process[s] = Process[Analytics] => s = Analytics
    /\ MaxFaults \in Nat

VARIABLES
    log,                \* the published events: accessedAt is the place in it
    boundAt,            \* Len(log) when the queue was first bound, or Unbound
    sub,                \* "off", "on", or "deaf": its connection is closed
    queue,              \* messages not settled; the head is the one delivered
    head,               \* the delivery of the head
    outcome,            \* how each message was settled
    stats,              \* file_access_stats
    rows,               \* how many notifications each event has
    faults

broker == <<boundAt, queue, outcome>>
vars == <<log, broker, sub, head, stats, rows, faults>>

Unbound == -1
NoStats == [count |-> 0, first |-> 0, last |-> 0]
Stats == [count : Nat, first : 0..Len(log), last : 0..Len(log)]

Init ==
    /\ log = <<>>
    /\ boundAt = [s \in Subscriptions |-> Unbound]
    /\ sub = [s \in Subscriptions |-> "off"]
    /\ queue = [s \in Subscriptions |-> <<>>]
    /\ head = [s \in Subscriptions |-> "idle"]
    /\ outcome = [s \in Subscriptions |-> [e \in Events |-> "none"]]
    /\ stats = [f \in Files |-> NoStats]
    /\ rows = [e \in Events |-> 0]
    /\ faults = 0

Fault == faults < MaxFaults /\ faults' = faults + 1
AccessedAt(e) == CHOOSE i \in DOMAIN log : log[i] = e

----------------------------------------------------------------------------
(* The publisher.                                                          *)

\* Slip: queues bound with a wildcard.
MatchesBug(s, e) == boundAt[s] # Unbound
Matches(s, e) == boundAt[s] # Unbound /\ Binding[s] = Key[e]

\* The last step of a download (its chunks are read, the checksum is right) or of an
\* upload: the exchange puts a copy in every queue bound with the routing key.  One
\* channel sends in the order of the calls, so accessedAt grows along log.  A request
\* that publishes nothing (refused, its process ended, the channel closed, the message
\* lost before the broker had it) stays out of log and takes no step here.
Publish(e) ==
    /\ e \notin Range(log)
    /\ log' = Append(log, e)
    /\ queue' = [s \in Subscriptions |->
                   IF Matches(s, e) THEN Append(queue[s], e) ELSE queue[s]]
    /\ UNCHANGED <<boundAt, outcome, sub, head, stats, rows, faults>>

----------------------------------------------------------------------------
(* A subscription.                                                         *)

\* Slip: a queue of the consumer's own, new with every start.
SubscribeBug(s) ==
    /\ sub[s] = "off"
    /\ sub' = [sub EXCEPT ![s] = "on"]
    /\ boundAt' = [boundAt EXCEPT ![s] = IF @ = Unbound THEN Len(log) ELSE @]
    /\ queue' = [queue EXCEPT ![s] = <<>>]
    /\ UNCHANGED <<log, outcome, head, stats, rows, faults>>

\* connectWithRetry, then subscribeEvent: durable queue, binding, consumer.  A first
\* binding misses what was published before it.
Subscribe(s) ==
    /\ sub[s] = "off"
    /\ sub' = [sub EXCEPT ![s] = "on"]
    /\ boundAt' = [boundAt EXCEPT ![s] = IF @ = Unbound THEN Len(log) ELSE @]
    /\ UNCHANGED <<log, queue, outcome, head, stats, rows, faults>>

Deliver(s) ==
    /\ sub[s] = "on"
    /\ head[s] = "idle"
    /\ queue[s] # <<>>
    /\ head' = [head EXCEPT ![s] = "handling"]
    /\ UNCHANGED <<log, broker, sub, stats, rows, faults>>

\* Slip: the update overwrites first_accessed_at as well.
RecordAccessBug(e) ==
    stats' = [stats EXCEPT ![File[e]] =
        [count |-> @.count + 1, first |-> AccessedAt(e), last |-> AccessedAt(e)]]

\* recordAccess: insert, or increment and overwrite last_accessed_at.
RecordAccess(e) ==
    stats' = [stats EXCEPT ![File[e]] =
        [count |-> @.count + 1,
         first |-> IF @.count = 0 THEN AccessedAt(e) ELSE @.first,
         last |-> AccessedAt(e)]]

\* The handler of s: one statement.
Effect(s) ==
    LET e == Head(queue[s]) IN
    IF s = Analytics
    THEN RecordAccess(e) /\ UNCHANGED rows
    ELSE rows' = [rows EXCEPT ![e] = @ + 1] /\ UNCHANGED stats

Handle(s) ==
    /\ head[s] = "handling"
    /\ Effect(s)
    /\ head' = [head EXCEPT ![s] = "handled"]
    /\ UNCHANGED <<log, broker, sub, faults>>

\* Slip: no catch, so the message of a failed handler is never settled.
HandleFailsBug(s) ==
    /\ head[s] = "handling"
    /\ Fault
    /\ head' = [head EXCEPT ![s] = "unsettled"]
    /\ UNCHANGED <<log, broker, sub, stats, rows>>

\* The statement fails, or only its answer is lost.
HandleFails(s) ==
    /\ head[s] = "handling"
    /\ Fault
    /\ Effect(s) \/ UNCHANGED <<stats, rows>>
    /\ head' = [head EXCEPT ![s] = "failed"]
    /\ UNCHANGED <<log, broker, sub>>

Settle(s, how) ==
    /\ queue' = [queue EXCEPT ![s] = Tail(@)]
    /\ outcome' = [outcome EXCEPT ![s][Head(queue[s])] = how]
    /\ head' = [head EXCEPT ![s] = "idle"]

\* Slip: the handler's promise is not waited for.
AckBug(s) ==
    /\ sub[s] = "on"
    /\ head[s] \in {"handling", "handled"}
    /\ Settle(s, "acked")
    /\ UNCHANGED <<log, boundAt, sub, stats, rows, faults>>

Ack(s) ==
    /\ sub[s] = "on"
    /\ head[s] = "handled"
    /\ Settle(s, "acked")
    /\ UNCHANGED <<log, boundAt, sub, stats, rows, faults>>

Nack(s) ==
    /\ sub[s] = "on"
    /\ head[s] = "failed"
    /\ Settle(s, "dropped")
    /\ UNCHANGED <<log, boundAt, sub, stats, rows, faults>>

----------------------------------------------------------------------------
(* Processes and connections.  The message a process had not acknowledged  *)
(* stays at the head of its queue and is delivered again.                  *)

SubsOf(p) == {s \in Subscriptions : Process[s] = p}

EndProcess(p) ==
    /\ sub' = [s \in Subscriptions |-> IF s \in SubsOf(p) THEN "off" ELSE sub[s]]
    /\ head' = [s \in Subscriptions |-> IF s \in SubsOf(p) THEN "idle" ELSE head[s]]

\* A statement in flight has had its effect (Handle came first) or has none.
Crash(p) ==
    /\ \E s \in SubsOf(p) : sub[s] # "off"
    /\ Fault
    /\ EndProcess(p)
    /\ UNCHANGED <<log, broker, stats, rows>>

\* The broker closes the connection in an orderly way.  (An abrupt end is an "error"
\* event that nothing listens to: it ends the process, like Crash; so does a connection
\* that closes while the process still subscribes.)
ConnectionCloses(p) ==
    /\ \A s \in SubsOf(p) : sub[s] = "on"
    /\ Fault
    /\ sub' = [s \in Subscriptions |-> IF s \in SubsOf(p) THEN "deaf" ELSE sub[s]]
    /\ UNCHANGED <<log, broker, head, stats, rows>>

\* Both ack and the nack in its catch throw on a closed channel: an unhandled
\* rejection, which ends the process.
SettleOnClosed(s) ==
    /\ sub[s] = "deaf"
    /\ head[s] \in {"handled", "failed"}
    /\ EndProcess(Process[s])
    /\ UNCHANGED <<log, broker, stats, rows, faults>>

----------------------------------------------------------------------------
Next ==
    \/ \E e \in Events : Publish(e)
    \/ \E s \in Subscriptions :
        \/ Subscribe(s) \/ Deliver(s) \/ Handle(s) \/ HandleFails(s)
        \/ Ack(s) \/ Nack(s) \/ SettleOnClosed(s)
    \/ \E p \in Processes : Crash(p) \/ ConnectionCloses(p)

Spec == Init /\ [][Next]_vars

\* A process that ended is started again, a queue with a consumer is served, and a
\* statement is answered.
FairSpec ==
    /\ Spec
    /\ \A s \in Subscriptions :
        WF_vars(Subscribe(s) \/ Deliver(s) \/ Handle(s) \/ Ack(s) \/ Nack(s)
                \/ SettleOnClosed(s))

----------------------------------------------------------------------------
TypeOK ==
    /\ log \in Seq(Events)
    /\ boundAt \in [Subscriptions -> Nat \union {Unbound}]
    /\ sub \in [Subscriptions -> {"off", "on", "deaf"}]
    /\ queue \in [Subscriptions -> Seq(Events)]
    /\ head \in [Subscriptions -> {"idle", "handling", "handled", "failed"}]
    /\ outcome \in [Subscriptions -> [Events -> {"none", "acked", "dropped"}]]
    /\ stats \in [Files -> Stats]
    /\ rows \in [Events -> Nat]
    /\ faults \in 0..MaxFaults

AckedBy(s) == {e \in Events : outcome[s][e] = "acked"}

\* An acknowledged message has had its effect: it is counted with the accesses of
\* its file, or has a notification.
AckedTookEffect ==
    /\ \A f \in Files :
        stats[f].count >= Cardinality({e \in AckedBy(Analytics) : File[e] = f})
    /\ \A s \in Subscriptions \ {Analytics} : \A e \in AckedBy(s) : rows[e] > 0

\* Repeated deliveries inflate an access count by at most one for each fault, and
\* only accesses of the file itself are counted.
CountsAreBounded ==
    \A f \in Files :
        stats[f].count
            <= faults + Cardinality({e \in Range(log) : Key[e] = Accessed /\ File[e] = f})

\* Redeliveries do not take back the time of the last access, and the first one
\* stays what it was.
AccessTimesAdvance ==
    [][\A f \in Files :
        /\ stats'[f].last >= stats[f].last
        /\ stats[f].count > 0 => stats'[f].first = stats[f].first]_vars

\* An event misses a subscriber only when it was published before the subscriber's
\* queue was first bound, whatever crashed since.
MissedOnlyIfUnbound ==
    \A s \in Subscriptions : \A i \in DOMAIN log :
        \/ Binding[s] # Key[log[i]]
        \/ boundAt[s] = Unbound
        \/ i <= boundAt[s]
        \/ log[i] \in Range(queue[s])
        \/ outcome[s][log[i]] # "none"

\* A message in a queue is eventually acknowledged or rejected, unless the
\* connection of its consumer closes.
CopiesSettle ==
    \A s \in Subscriptions : \A e \in {x \in Events : Key[x] = Binding[s]} :
        e \in Range(queue[s]) ~> outcome[s][e] # "none" \/ sub[s] = "deaf"
=============================================================================
