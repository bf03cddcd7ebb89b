------------------------------ MODULE HybsterX ------------------------------
(***************************************************************************)
(* protocols/hybsterx: instances and batches that each take the two phases *)
(* of protocols/hybster, with a quorum of f + 1 of the 2f + 1 replicas.    *)
(* The proposer's Prepare and the others' Commits are votes.  Messages are *)
(* signed by a dispatcher with a bucket for each owner and one for the     *)
(* batches, so that those of different owners overtake one another.        *)
(***************************************************************************)
EXTENDS DqCluster

\* A replica's instance or batch exists, here, from its Prepare on: one that a Commit
\* has made before only collects votes.
makeInstance(status, command) == [status |-> status, command |-> command, val |-> command]

voters(id) == {q \in cfg.members : has(q, id)}

Majority(votes) == Cardinality(votes) > cfg.f

rest == <<cfg, chan, jobs, crashed, panicked>>

\* sendCRequest: the primary's log with ids as the next batch.
withBatch(L, ids) == put(L, batchID(oindex), makeInstance("Prepared", ids))

\* The log of r, which has met the proposal of instance id; at the primary also with the
\* batch that this completes.
afterOrdering(r, id) == IF flushes(r, id) THEN withBatch(log[r], buffered(r, id)) ELSE log[r]

onRequest(r, c) ==
    LET id == instanceID(r, index[r])
    IN  /\ newCommand(r, c)
        /\ requested' = requested \cup {c}
        /\ index' = [index EXCEPT ![r] = @ + 1]
        /\ log' = [log EXCEPT ![r] = put(afterOrdering(r, id), id, makeInstance("Prepared", c))]
        /\ bufferAfter(r, id)
        /\ UNCHANGED <<oexecIdx, executed, rest>>

\* The timer calls sendCRequest for what the buffer holds.
OBatchTimeout ==
    /\ Primary \in Alive /\ cReqBuffer # << >>
    /\ log' = [log EXCEPT ![Primary] = withBatch(@, cReqBuffer)]
    /\ oindex' = oindex + 1
    /\ cReqBuffer' = << >>
    /\ UNCHANGED <<requested, index, oexecIdx, executed, rest>>

\* onPrepare and onOPrepare: the proposer's vote, its own and those that came before.
onPrepare(r, id) ==
    LET q == proposer(id)
    IN  /\ r \in Alive \ {q} /\ has(q, id) /\ ~has(r, id)
        /\ \A i \in 0 .. id.index - 1 : has(r, [id EXCEPT !.index = i])     \* one bucket
        /\ \E early \in SUBSET voters(id) :
              LET commits == Majority(early \cup {q, r})
                  L == put(afterOrdering(r, id), id,
                           makeInstance(IF commits THEN "Committed" ELSE "Prepared", log[q][id].val))
              IN  IF commits THEN exec(r, L) ELSE noExec(r, L)
        /\ bufferAfter(r, id)
        /\ UNCHANGED <<requested, index, rest>>

\* onCommit and onOCommit, with the Commit that completes the quorum.
open(r, id, replicas) == has(r, id) /\ log[r][id].status = "Prepared" /\ Majority(voters(id) \cap replicas)

onCommit(r, id) ==
    /\ r \in Alive /\ open(r, id, cfg.members)
    /\ exec(r, [log[r] EXCEPT ![id].status = "Committed"])
    /\ UNCHANGED <<requested, index, oindex, cReqBuffer, rest>>

-----------------------------------------------------------------------------
Next ==
    \/ \E r \in cfg.members, c \in Commands : onRequest(r, c)
    \/ OBatchTimeout
    \/ \E r \in cfg.members, id \in Ids : onPrepare(r, id) \/ onCommit(r, id)
    \/ \E r \in cfg.members : Crash(r)

\* No proposal, vote or id is left to act on at the replicas that run.
quiet ==
    /\ cReqBuffer = << >>
    /\ \A id \in Ids, r \in Alive : (has(proposer(id), id) => has(r, id)) /\ ~open(r, id, Alive)
=============================================================================
