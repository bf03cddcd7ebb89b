------------------------------ MODULE MCDqPbft ------------------------------
(* A small instance of DqPbft for TLC: a batch of two filled by two proposers or
   sent by the timer, an instance of its own and one of another replica in which a
   faulty replica proposes differently to different replicas, and batches that a
   faulty primary orders differently. *)
EXTENDS DqPbft, TLC

MCScenarios == {
    [LeaderID |-> 0, oBatchSize |-> 2, clients |-> {0, 1}, attack |-> "None", batches |-> 2],
    [LeaderID |-> 0, oBatchSize |-> 1, clients |-> {3}, attack |-> "C", batches |-> 1],
    [LeaderID |-> 0, oBatchSize |-> 1, clients |-> {1}, attack |-> "C", batches |-> 1],
    [LeaderID |-> 3, oBatchSize |-> 1, clients |-> {0, 1}, attack |-> "O", batches |-> 1]}

\* Nothing tells the commands apart, and no property is about fair behaviours.
MCSymmetry == Permutations(Commands)
=============================================================================
