----------------------------- MODULE MCEventBus -----------------------------
(***************************************************************************)
(* A small instance of EventBus for TLC: two downloads and an upload of    *)
(* one file, the subscription of ai-analytics-service and the two of       *)
(* notification-service.                                                   *)
(***************************************************************************)
EXTENDS EventBus

CONSTANTS e1, e2, e3, f1, analytics, uploads, accesses, ai, notification

MCKey == [e \in Events |-> IF e = e3 THEN Uploaded ELSE Accessed]
MCFile == [e \in Events |-> f1]
MCBinding == [s \in Subscriptions |-> IF s = uploads THEN Uploaded ELSE Accessed]
MCProcess == [s \in Subscriptions |-> IF s = analytics THEN ai ELSE notification]
=============================================================================
