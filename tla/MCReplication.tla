--------------------------- MODULE MCReplication ---------------------------
(* Three replicas; -1 and 1 stand for the infinities.                        *)
EXTENDS Replication, TLC

CONSTANTS r1, r2, r3, e1, e2

MCNumbers == -1..1

Symmetry == Permutations(Replicas) \cup Permutations(Elements)
=============================================================================
