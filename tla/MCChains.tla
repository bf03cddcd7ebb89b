------------------------------ MODULE MCChains ------------------------------
(* A small instance of Chains for TLC. *)
EXTENDS Chains, TLC

\* The followers of a DuoBFT chain are interchangeable.
MCSymmetry == Permutations(Nodes \ {Primary})
=============================================================================
