------------------------------ MODULE Destiny ------------------------------
(***************************************************************************)
(* protocols/destiny: the handlers of LinearDq, with a quorum of f + 1 of  *)
(* the 2f + 1 replicas.  Shares are signed by the enclave with a counter   *)
(* for each owner and one for the batches; bucketworker keeps the order of *)
(* each, and the proposals of an owner arrive in order, so that no counter *)
(* is asked for a smaller value.                                           *)
(***************************************************************************)
EXTENDS DqCluster

Majority(votes, s) == votes > s.f

L == INSTANCE LinearDq WITH Majority <- Majority

onRequest(r, c) == L!onRequest(r, c)
OBatchTimeout == L!OBatchTimeout
onPrepare(r, q) == L!onPrepare(r, q)
onSignShare(id) == L!onSignShare(id)
Aggregated(r) == L!Aggregated(r)
onCommit(r, q) == L!onCommit(r, q)
Verified(r) == L!Verified(r)

Next ==
    \/ \E r \in cfg.members, c \in Commands : onRequest(r, c)
    \/ OBatchTimeout
    \/ \E r, q \in cfg.members : onPrepare(r, q) \/ onCommit(r, q)
    \/ \E id \in Ids : onSignShare(id)
    \/ \E r \in cfg.members : Aggregated(r) \/ Verified(r) \/ Crash(r)

quiet == L!quiet
=============================================================================
