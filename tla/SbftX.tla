------------------------------- MODULE SbftX -------------------------------
(* protocols/sbftx: the handlers of LinearDq, with a quorum of 3f + ff + 1 of the
   3f + 2ff + 1 replicas. *)
EXTENDS DqCluster

Majority(votes, s) == votes > 3 * s.f + s.ff

L == INSTANCE LinearDq WITH Majority <- Majority

Next == L!Next
quiet == L!quiet
=============================================================================
