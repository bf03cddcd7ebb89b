------------------------------ MODULE LinearDq ------------------------------
(***************************************************************************)
(* protocols/sbftx, and protocols/destiny, which is the same code with     *)
(* another quorum and an enclave that signs: the proposer of an instance   *)
(* or of a batch collects the shares of a quorum, aggregates them into one *)
(* signature and broadcasts that as the proof of the commit.  Replicas may *)
(* crash here; a certificate's signature is valid by assumption.           *)
(***************************************************************************)
EXTENDS DqCluster

CONSTANT Majority(_, _)     \* enough votes of this number in this scenario

\* signed: the replica has sent its share.
makeInstance(status, command, hash, signed) ==
    [status |-> status, command |-> command, hash |-> hash, signed |-> signed]

\* The instance or batch of r, made if it is missing, after updateCommandHash.
instWith(r, id, hash) ==
    IF has(r, id) THEN [log[r][id] EXCEPT !.hash = hash] ELSE makeInstance("None", Nil, hash, FALSE)

Prepare(id, val) == [type |-> "Prepare", id |-> id, val |-> val]

-----------------------------------------------------------------------------
(* Proposals *)

onRequest(r, c) ==
    LET id == instanceID(r, index[r])
    IN  /\ newCommand(r, c)
        /\ requested' = requested \cup {c}
        /\ index' = [index EXCEPT ![r] = @ + 1]
        /\ log' = [log EXCEPT ![r] = put(@, id, makeInstance("Prepared", c, Nil, FALSE))]
        /\ chan' = broadcast(chan, r, cfg.members, Prepare(id, c))
        /\ UNCHANGED <<cfg, oindex, cReqBuffer, jobs, oexecIdx, executed, crashed, panicked>>

\* sendCRequest: the primary's log, and what it broadcasts, with ids as the next batch.
withBatch(L, ids) == put(L, batchID(oindex), makeInstance("Prepared", ids, Nil, FALSE))
batchSent(ch, ids) == broadcast(ch, Primary, cfg.members, Prepare(batchID(oindex), ids))

\* The timer calls sendCRequest for what the buffer holds.
OBatchTimeout ==
    /\ Primary \in Alive /\ cReqBuffer # << >>
    /\ log' = [log EXCEPT ![Primary] = withBatch(@, cReqBuffer)]
    /\ chan' = batchSent(chan, cReqBuffer)
    /\ oindex' = oindex + 1
    /\ cReqBuffer' = << >>
    /\ UNCHANGED <<cfg, requested, index, jobs, oexecIdx, executed, crashed, panicked>>

\* onPrepare and onOPrepare, which sign a share for the proposer.
onPrepare(r, q) ==
    \E m \in received(r, q, "Prepare") :
        LET ids == buffered(r, m.id)
            L == IF flushes(r, m.id) THEN withBatch(log[r], ids) ELSE log[r]
            inst == [instWith(r, m.id, m.val) EXCEPT !.command = m.val]
        IN  IF differs(r, m.id, "command", m.val) \/ differs(r, m.id, "hash", m.val) THEN Panic(r)
            ELSE /\ IF inst.status = "Committed" THEN exec(r, put(L, m.id, inst))
                    ELSE noExec(r, put(L, m.id, makeInstance("Prepared", m.val, m.val, TRUE)))
                 /\ bufferAfter(r, m.id)
                 /\ chan' = IF flushes(r, m.id) THEN batchSent(popped(r, q), ids) ELSE popped(r, q)
                 /\ UNCHANGED <<cfg, requested, index, jobs, crashed, panicked>>

-----------------------------------------------------------------------------
(* The certificate *)

signers(id) == {q \in cfg.members : has(q, id) /\ log[q][id].signed}

\* The shares of these replicas complete the quorum at the proposer.
shared(id, replicas) ==
    /\ has(proposer(id), id) /\ log[proposer(id)][id].status \in {"None", "Prepared"}
    /\ Majority(Cardinality(signers(id) \cap replicas), cfg)

\* onSignShare and onOSignShare, with the share that completes the quorum.
onSignShare(id) ==
    LET r == proposer(id)
    IN  /\ r \in Alive /\ shared(id, cfg.members)
        /\ \E q \in signers(id) :
              /\ log' = [log EXCEPT ![r][id] =
                            [instWith(r, id, log[q][id].hash) EXCEPT !.status = "SignShared"]]
              /\ jobs' = withJob(r, [type |-> "Aggregate", id |-> id, val |-> log[q][id].hash])
        /\ UNCHANGED <<cfg, requested, index, oindex, cReqBuffer, chan, oexecIdx, executed,
                       crashed, panicked>>

\* The callback of aggDispatcher: the certificate is broadcast.
Aggregated(r) ==
    \E j \in pending(r, "Aggregate") :
        /\ jobs' = withoutJob(r, j)
        /\ chan' = broadcast(chan, r, cfg.members \ {r}, [type |-> "Commit", id |-> j.id, val |-> j.val])
        /\ exec(r, [log[r] EXCEPT ![j.id].status = "Committed"])
        /\ UNCHANGED <<cfg, requested, index, oindex, cReqBuffer, crashed, panicked>>

\* onCommit and onOCommit.
onCommit(r, q) ==
    \E m \in received(r, q, "Commit") :
        LET inst == instWith(r, m.id, m.val)
            L == put(log[r], m.id, inst)
            done == inst.status \in {"Committed", "Executed"}
        IN  IF differs(r, m.id, "hash", m.val) THEN Panic(r)
            ELSE /\ IF done /\ isBatch(m.id) THEN exec(r, L) ELSE noExec(r, L)
                 /\ jobs' = IF done THEN jobs ELSE withJob(r, [type |-> "Verify", id |-> m.id])
                 /\ chan' = popped(r, q)
                 /\ UNCHANGED <<cfg, requested, index, oindex, cReqBuffer, crashed, panicked>>

\* Mutant of Verified: the callback does not call exec.
VerifiedOnly(r) ==
    \E j \in pending(r, "Verify") :
        /\ jobs' = withoutJob(r, j)
        /\ noExec(r, [log[r] EXCEPT ![j.id].status = "Committed"])
        /\ UNCHANGED <<cfg, requested, index, oindex, cReqBuffer, chan, crashed, panicked>>

\* The callback of verifyDispatcher.
Verified(r) ==
    \E j \in pending(r, "Verify") :
        /\ jobs' = withoutJob(r, j)
        /\ exec(r, [log[r] EXCEPT ![j.id].status = "Committed"])
        /\ UNCHANGED <<cfg, requested, index, oindex, cReqBuffer, chan, crashed, panicked>>

-----------------------------------------------------------------------------
Next ==
    \/ \E r \in cfg.members, c \in Commands : onRequest(r, c)
    \/ OBatchTimeout
    \/ \E r, q \in cfg.members : onPrepare(r, q) \/ onCommit(r, q)
    \/ \E id \in Ids : onSignShare(id)
    \/ \E r \in cfg.members : Aggregated(r) \/ Verified(r) \/ Crash(r)

\* No message, callback, share or id is left to act on at the replicas that run.
quiet == Quiet /\ cReqBuffer = << >> /\ \A id \in Ids : ~shared(id, Alive)
=============================================================================
