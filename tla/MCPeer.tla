------------------------------- MODULE MCPeer -------------------------------
(* Small instances of Peer for TLC. *)
EXTENDS Peer

CONSTANTS c1, c2, c3, q1, q2, q3

\* One call for each of two commands, and a second call for the first of them.
WithRetry == (q1 :> c1) @@ (q2 :> c2) @@ (q3 :> c1)

TwoCalls == (q1 :> c1) @@ (q2 :> c2)

OneCall == q1 :> c1
=============================================================================
