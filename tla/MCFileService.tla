--------------------------- MODULE MCFileService ---------------------------
(***************************************************************************)
(* A small instance of FileService for TLC: a user registers a file, adds  *)
(* two versions to it and deletes it while another user tries to delete    *)
(* it, all at once.  Queries on different files do not touch one another.  *)
(***************************************************************************)
EXTENDS FileService, TLC

CONSTANTS f1, u1, u2, r1, a1, a2, d1, d2

MCFileOf == [r \in Requests |-> f1]
MCCaller == [r \in Requests |-> IF r = d2 THEN u2 ELSE u1]
============================================================================
