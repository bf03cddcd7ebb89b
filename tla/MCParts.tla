------------------------------- MODULE MCParts -------------------------------
(* A small instance of Parts for TLC. *)
EXTENDS Parts

CONSTANTS r1, r2

M(p, n) == [to |-> p, no |-> n]

\* Three calls of Send: every destination in the first, peer 1 in all.
ThreeBatches == << <<M(1, 1), M(2, 2), M(0, 3), M(1, 4)>>, <<M(1, 5)>>, <<M(1, 6)>> >>

\* The first leader has a command more than the second.
UnevenLoad == [r \in Replicas |-> IF r = r1 THEN 3 ELSE 2]
=============================================================================
