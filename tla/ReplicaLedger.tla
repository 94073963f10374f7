---------------------------- MODULE ReplicaLedger ----------------------------
(***************************************************************************)
(* What replication-service promises, without saying how: a ledger of      *)
(* replicas, kept honest by the bytes that were copied first.  Replication *)
(* implements this specification with the same bucket, replica and event.  *)
(***************************************************************************)
EXTENDS Integers, Sequences

CONSTANTS Nodes, Chunks, Events, Batch, StorageKey

VARIABLES bucket, replica, event
vars == <<bucket, replica, event>>

Tracked(c) == \E n \in Nodes : replica[c][n] # "none"

Init ==
    /\ bucket = [n \in Nodes |-> {}]
    /\ replica = [c \in Chunks |-> [n \in Nodes |-> "none"]]
    /\ event = [e \in Events |-> "unpublished"]

\* Bytes reach a node and stay there.
Store(c, n) ==
    /\ bucket' = [bucket EXCEPT ![n] = @ \union {StorageKey[c]}]
    /\ UNCHANGED <<replica, event>>

\* The first replica of a chunk comes from the event being handled, and only
\* when the chunks before it in the event have theirs.
InTurn(c) ==
    \E e \in Events : \E i \in 1..Len(Batch[e]) :
        /\ event[e] = "unacked"
        /\ Batch[e][i] = c
        /\ \A j \in 1..(i - 1) : Tracked(Batch[e][j])

\* A replica is recorded only after its bytes were copied.
Track(c, n) ==
    /\ StorageKey[c] \in bucket[n]
    /\ Tracked(c) \/ InTurn(c)
    /\ replica' = [replica EXCEPT ![c][n] = "synced"]
    /\ UNCHANGED <<bucket, event>>

Lose(c, n) ==
    /\ replica[c][n] = "synced"
    /\ replica' = [replica EXCEPT ![c][n] = "lost"]
    /\ UNCHANGED <<bucket, event>>

\* The life of a message: one at a time, acknowledged only once every chunk has a
\* replica, and never handled again after it was settled.
Successors(e) ==
    CASE event[e] = "unpublished" -> {"ready", "unsent"}
      [] event[e] = "ready" /\ (\A f \in Events : event[f] # "unacked") -> {"unacked"}
      [] event[e] = "unacked" -> {"ready", "dropped"} \union
            (IF \A i \in 1..Len(Batch[e]) : Tracked(Batch[e][i]) THEN {"acked"} ELSE {})
      [] OTHER -> {}

Move(e) ==
    /\ \E s \in Successors(e) : event' = [event EXCEPT ![e] = s]
    /\ UNCHANGED <<bucket, replica>>

Next ==
    \/ \E c \in Chunks, n \in Nodes : Store(c, n) \/ Track(c, n) \/ Lose(c, n)
    \/ \E e \in Events : Move(e)

Spec == Init /\ [][Next]_vars
============================================================================
