--------------------------- MODULE MCReplication ---------------------------
(***************************************************************************)
(* Small instances of Replication for TLC.                                 *)
(***************************************************************************)
EXTENDS Replication, TLC

CONSTANTS n1, n2, n3, c1, c2, e1

MCOneChunk == (e1 :> <<c1>>)
MCTwoChunks == (e1 :> <<c1, c2>>)
MCSizes == [c \in Chunks |-> IF c = c1 THEN 2 ELSE 1]
MCDistinctKeys == [c \in Chunks |-> c]
NodeSymmetry == Permutations(Nodes)
============================================================================
