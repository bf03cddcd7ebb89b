------------------------------- MODULE MCPbft -------------------------------
(* Small instances of Pbft for TLC. *)
EXTENDS Pbft
=============================================================================
