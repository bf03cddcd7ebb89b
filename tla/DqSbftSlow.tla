----------------------------- MODULE DqSbftSlow -----------------------------
(***************************************************************************)
(* protocols/dqsbftslow: the two logs of protocols/sbftx with one more     *)
(* phase for each instance and batch.  Its proposer aggregates the shares  *)
(* of 2f + ff + 1 replicas twice: that they have its proposal, which it    *)
(* broadcasts as a Prepare, and that they have that Prepare, which         *)
(* commits.  Replicas may crash here; a certificate's signature is valid   *)
(* by assumption.                                                          *)
(***************************************************************************)
EXTENDS DqCluster

\* InstanceState_Status, in its order.
Statuses == <<"None", "Preprepared", "SignShared", "Prepared", "CommitSigShared", "Committed",
              "Executed">>
rank(status) == CHOOSE k \in DOMAIN Statuses : Statuses[k] = status
before(inst, status) == rank(inst.status) < rank(status)

\* signed, cSigned: the replica has sent its SignShare, its CommitSig.
makeInstance(status, command, hash) ==
    [status |-> status, command |-> command, hash |-> hash, signed |-> FALSE, cSigned |-> FALSE]

\* The instance or batch of r, made if it is missing, after updateCommandHash.
instWith(r, id, hash) ==
    IF has(r, id) THEN [log[r][id] EXCEPT !.hash = hash] ELSE makeInstance("None", Nil, hash)

Preprepare(id, val) == [type |-> "Preprepare", id |-> id, val |-> val]

-----------------------------------------------------------------------------
(* Proposals *)

onRequest(r, c) ==
    LET id == instanceID(r, index[r])
    IN  /\ newCommand(r, c)
        /\ requested' = requested \cup {c}
        /\ index' = [index EXCEPT ![r] = @ + 1]
        /\ log' = [log EXCEPT ![r] = put(@, id, makeInstance("Preprepared", c, Nil))]
        /\ chan' = broadcast(chan, r, cfg.members, Preprepare(id, c))
        /\ UNCHANGED <<cfg, oindex, cReqBuffer, jobs, oexecIdx, executed, crashed, panicked>>

\* sendCRequest: the primary's log, and what it broadcasts, with ids as the next batch.
withBatch(L, ids) == put(L, batchID(oindex), makeInstance("Preprepared", ids, Nil))
batchSent(ch, ids) == broadcast(ch, Primary, cfg.members, Preprepare(batchID(oindex), ids))

\* The timer calls sendCRequest for what the buffer holds.
OBatchTimeout ==
    /\ Primary \in Alive /\ cReqBuffer # << >>
    /\ log' = [log EXCEPT ![Primary] = withBatch(@, cReqBuffer)]
    /\ chan' = batchSent(chan, cReqBuffer)
    /\ oindex' = oindex + 1
    /\ cReqBuffer' = << >>
    /\ UNCHANGED <<cfg, requested, index, jobs, oexecIdx, executed, crashed, panicked>>

\* onPreprepare and onOPreprepare, which sign a share for the proposer unless the
\* proposal comes late.
onPreprepare(r, q) ==
    \E m \in received(r, q, "Preprepare") :
        LET ids == buffered(r, m.id)
            L == IF flushes(r, m.id) THEN withBatch(log[r], ids) ELSE log[r]
            inst == [instWith(r, m.id, m.val) EXCEPT !.command = m.val]
        IN  IF differs(r, m.id, "command", m.val) \/ differs(r, m.id, "hash", m.val) THEN Panic(r)
            ELSE /\ IF inst.status = "Committed" THEN exec(r, put(L, m.id, inst))
                    ELSE noExec(r, put(L, m.id,
                            IF before(inst, "SignShared")
                            THEN [inst EXCEPT !.status = "Preprepared", !.signed = TRUE] ELSE inst))
                 /\ bufferAfter(r, m.id)
                 /\ chan' = IF flushes(r, m.id) THEN batchSent(popped(r, q), ids) ELSE popped(r, q)
                 /\ UNCHANGED <<cfg, requested, index, jobs, crashed, panicked>>

-----------------------------------------------------------------------------
(* The two certificates *)

signers(field, id) == {q \in cfg.members : has(q, id) /\ log[q][id][field]}

Majority(votes) == Cardinality(votes) > 2 * cfg.f + cfg.ff

\* The votes of these replicas complete a quorum at the proposer.
shared(id, field, status, replicas) ==
    /\ has(proposer(id), id) /\ before(log[proposer(id)][id], status)
    /\ Majority(signers(field, id) \cap replicas)

\* The proposer has a quorum of signatures and gives them to aggDispatcher.
aggregate(id, field, status, type) ==
    LET r == proposer(id)
    IN  /\ r \in Alive /\ shared(id, field, status, cfg.members)
        /\ \E q \in signers(field, id) :
              /\ log' = [log EXCEPT ![r][id] = [instWith(r, id, log[q][id].hash) EXCEPT !.status = status]]
              /\ jobs' = withJob(r, [type |-> type, id |-> id, val |-> log[q][id].hash])
        /\ UNCHANGED <<cfg, requested, index, oindex, cReqBuffer, chan, oexecIdx, executed,
                       crashed, panicked>>

\* onSignShare and onCommitSig of both logs, with the vote that completes the quorum.
onSignShare(id) == aggregate(id, "signed", "SignShared", "Aggregate")
onCommitSig(id) == aggregate(id, "cSigned", "CommitSigShared", "AggregateSlow")

\* The callback of aggDispatcher for the first certificate.
Aggregated(r) ==
    \E j \in pending(r, "Aggregate") :
        /\ jobs' = withoutJob(r, j)
        /\ chan' = broadcast(chan, r, cfg.members, [type |-> "Prepare", id |-> j.id, val |-> j.val])
        /\ UNCHANGED <<cfg, requested, index, oindex, cReqBuffer, log, oexecIdx, executed, crashed, panicked>>

\* onPrepare and onOPrepare: the replica sends its CommitSig.
onPrepare(r, q) ==
    \E m \in received(r, q, "Prepare") :
        LET inst == instWith(r, m.id, m.val)
        IN  IF differs(r, m.id, "hash", m.val) THEN Panic(r)
            ELSE /\ noExec(r, put(log[r], m.id,
                       IF before(inst, "CommitSigShared")
                       THEN [inst EXCEPT !.status = "Prepared", !.cSigned = TRUE] ELSE inst))
                 /\ chan' = popped(r, q)
                 /\ UNCHANGED <<cfg, requested, index, oindex, cReqBuffer, jobs, crashed, panicked>>

\* The callback of aggDispatcher for the second certificate.
AggregatedSlow(r) ==
    \E j \in pending(r, "AggregateSlow") :
        /\ jobs' = withoutJob(r, j)
        /\ chan' = broadcast(chan, r, cfg.members \ {r}, [type |-> "CommitSlow", id |-> j.id, val |-> j.val])
        /\ exec(r, [log[r] EXCEPT ![j.id].status = "Committed"])
        /\ UNCHANGED <<cfg, requested, index, oindex, cReqBuffer, crashed, panicked>>

\* onCommit and onOCommit.
onCommit(r, q) ==
    \E m \in received(r, q, "CommitSlow") :
        LET inst == instWith(r, m.id, m.val)
        IN  IF differs(r, m.id, "hash", m.val) THEN Panic(r)
            ELSE /\ noExec(r, put(log[r], m.id, inst))
                 /\ jobs' = IF before(inst, "Committed") THEN withJob(r, [type |-> "Verify", id |-> m.id])
                            ELSE jobs
                 /\ chan' = popped(r, q)
                 /\ UNCHANGED <<cfg, requested, index, oindex, cReqBuffer, crashed, panicked>>

\* The callback of verifyDispatcher.
Verified(r) ==
    \E j \in pending(r, "Verify") :
        /\ jobs' = withoutJob(r, j)
        /\ exec(r, [log[r] EXCEPT ![j.id].status = "Committed"])
        /\ UNCHANGED <<cfg, requested, index, oindex, cReqBuffer, chan, crashed, panicked>>

-----------------------------------------------------------------------------
Next ==
    \/ \E r \in cfg.members, c \in Commands : onRequest(r, c)
    \/ OBatchTimeout
    \/ \E r, q \in cfg.members : onPreprepare(r, q) \/ onPrepare(r, q) \/ onCommit(r, q)
    \/ \E id \in Ids : onSignShare(id) \/ onCommitSig(id)
    \/ \E r \in cfg.members : Aggregated(r) \/ AggregatedSlow(r) \/ Verified(r) \/ Crash(r)

\* No message, callback, vote or id is left to act on at the replicas that run.
quiet ==
    /\ Quiet /\ cReqBuffer = << >>
    /\ \A id \in Ids : /\ ~shared(id, "signed", "SignShared", Alive)
                       /\ ~shared(id, "cSigned", "CommitSigShared", Alive)
=============================================================================
