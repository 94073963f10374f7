---------------------------- MODULE MCWebClient ----------------------------
(***************************************************************************)
(* A small instance of WebClient for TLC: two addresses, two passwords,    *)
(* the tab and another one, two uploads whose names match different        *)
(* queries.                                                                *)
(***************************************************************************)
EXTENDS WebClient, MCAnalytics

CONSTANTS f1, f2, q1, q2

MCMatch == [q \in Queries |-> IF q = q1 THEN {f1} ELSE {f2}]
AccountSymmetry == Permutations(Accounts) \union Permutations(Passwords)
=============================================================================
