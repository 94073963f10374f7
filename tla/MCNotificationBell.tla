------------------------- MODULE MCNotificationBell -------------------------
(***************************************************************************)
(* A small instance of NotificationBell for TLC: two accounts, one         *)
(* with a notification between the other's two.                           *)
(***************************************************************************)
EXTENDS NotificationBell

CONSTANTS ann, bob

MCOwner == [n \in Notifications |-> IF n = 2 THEN bob ELSE ann]
=============================================================================
