------------------------------ MODULE MCUpload ------------------------------
(***************************************************************************)
(* Small instances of Upload for TLC: a new file of two chunks, a new      *)
(* version of it that repeats one of them, and another new file that       *)
(* consists of the other.                                                  *)
(***************************************************************************)
EXTENDS Upload, TLC

CONSTANTS f1, f2, u1, u2, u3, k1, k2

MCFileOf == [u \in Calls |-> IF u = u3 THEN f2 ELSE f1]
MCContent ==
    [u \in Calls |-> CASE u = u1 -> <<k1, k2>> [] u = u2 -> <<k2, k2>> [] u = u3 -> <<k1>>]
=============================================================================
