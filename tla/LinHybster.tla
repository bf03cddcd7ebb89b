----------------------------- MODULE LinHybster -----------------------------
(***************************************************************************)
(* protocols/linhybster: Hybster with linear communication.  The leader    *)
(* proposes and collects the enclaves' signature shares of f + 1 of the    *)
(* 2f + 1 replicas, as in protocols/sbft; but a Prepare always takes the   *)
(* instance to Prepared, and a client is answered once.                    *)
(***************************************************************************)
EXTENDS Cluster

None == 0           \* InstanceState_Status
Prepared == 1
SignShared == 2
Committed == 3
Executed == 5

\* signed: the replica has sent its share.
makeInstance(status, command, hash, signed) ==
    [status |-> status, command |-> command, hash |-> hash, signed |-> signed]

\* The instance i of r, made if it is missing, after updateCommandHash.
instWith(r, i, hash) ==
    IF i \in DOMAIN log[r] THEN [log[r][i] EXCEPT !.hash = hash] ELSE makeInstance(None, Nil, hash, FALSE)

IsCommitted(inst) == inst.status = Committed

\* exec, for a replica whose log has become L.
exec(r, L) ==
    LET next == loopEnd(execIdx[r], {i \in DOMAIN L : IsCommitted(L[i]) /\ L[i].command # Nil})
        done == execIdx[r] .. next - 1
    IN  /\ log' = [log EXCEPT ![r] = [i \in DOMAIN L |->
                      IF i \in done THEN [L[i] EXCEPT !.command = Nil, !.status = Executed] ELSE L[i]]]
        /\ executed' = [executed EXCEPT ![r] =
                           @ \o [k \in 1 .. next - execIdx[r] |-> L[execIdx[r] + k - 1].command]]
        /\ execIdx' = [execIdx EXCEPT ![r] = next]

-----------------------------------------------------------------------------
(* The leader's proposal and its certificate *)

onRequest(c) ==
    /\ Leader \in Alive /\ newCommand(c)
    /\ requested' = requested \cup {c}
    /\ index' = [index EXCEPT ![Leader] = @ + 1]
    /\ log' = [log EXCEPT ![Leader] = put(@, index[Leader], makeInstance(Prepared, c, Nil, FALSE))]
    /\ chan' = sendTo(cfg.members, [type |-> "Prepare", index |-> index[Leader], val |-> c])
    /\ UNCHANGED <<cfg, jobs, execIdx, executed, results, answered, crashed, panicked>>

\* Mutant of onPrepare: a late Prepare starts the execution over.
onPrepareStartsOver(r) ==
    \E m \in received(r, "Prepare") :
        /\ log' = [log EXCEPT ![r] = put(@, m.index, makeInstance(Prepared, m.val, m.val, TRUE))]
        /\ execIdx' = [execIdx EXCEPT ![r] = Min({@, m.index})]
        /\ chan' = popped(r)
        /\ UNCHANGED <<cfg, requested, index, jobs, executed, results, answered, crashed, panicked>>

\* onPrepare, which signs a share and sends it to the leader.  The leader's own
\* Prepare may be late and give an executed instance its command back.  (The code does
\* not compare the sender with the leader, and the enclave signs with counter 0; a faulty
\* follower proposes nothing here.)
onPrepare(r) ==
    \E m \in received(r, "Prepare") :
        IF differs(r, m.index, "command", m.val) \/ differs(r, m.index, "hash", m.val) THEN Panic(r)
        ELSE /\ log' = [log EXCEPT ![r] = put(@, m.index, makeInstance(Prepared, m.val, m.val, TRUE))]
             /\ chan' = popped(r)
             /\ UNCHANGED <<cfg, requested, index, jobs, execIdx, executed, results, answered,
                            crashed, panicked>>

\* The replicas that have signed a share for command c and instance i.
signers(i, c) ==
    {q \in Correct : i \in DOMAIN log[q] /\ log[q][i].signed /\ log[q][i].hash = c} \cup cfg.faulty

\* The threshold of the signature scheme, and of the leader's test.
threshold == cfg.f + 1

Majority(votes) == Cardinality(votes) >= threshold

\* The instances whose quorum the leader completes with the shares of these replicas.
sharedBy(replicas) ==
    {i \in DOMAIN log[Leader] : log[Leader][i].status < SignShared
                                /\ \E c \in Commands : Majority(signers(i, c) \cap replicas)}

\* onSignShare, with the share that completes the quorum: the first one that finds it
\* complete, or the leader's own after a late Prepare.
onSignShare(i) ==
    \E c \in Commands :
        /\ Leader \in Alive /\ i \in sharedBy(cfg.members) /\ Majority(signers(i, c))
        /\ IF differs(Leader, i, "hash", c) THEN Panic(Leader)
           ELSE /\ log' = [log EXCEPT ![Leader][i] = [instWith(Leader, i, c) EXCEPT !.status = SignShared]]
                /\ jobs' = withJob(Leader, [type |-> "Aggregate", index |-> i, hash |-> c])
                /\ UNCHANGED <<cfg, requested, index, chan, execIdx, executed, results, answered,
                               crashed, panicked>>

\* The callback of aggDispatcher: the certificate is broadcast.
Aggregated ==
    \E j \in pending(Leader, "Aggregate") :
        /\ jobs' = withoutJob(Leader, j)
        /\ chan' = sendTo(cfg.members \ {Leader}, [type |-> "Commit", index |-> j.index, val |-> j.hash])
        /\ exec(Leader, [log[Leader] EXCEPT ![j.index].status = Committed])
        /\ UNCHANGED <<cfg, requested, index, results, answered, crashed, panicked>>

-----------------------------------------------------------------------------
(* The commit, and the results *)

onCommit(r) ==
    \E m \in received(r, "Commit") :
        IF differs(r, m.index, "hash", m.val) THEN Panic(r)
        ELSE LET inst == instWith(r, m.index, m.val)
                 L == put(log[r], m.index, inst)
             IN  /\ log' = [log EXCEPT ![r] = L]
                 /\ jobs' = IF inst.status >= Committed THEN jobs
                            ELSE withJob(r, [type |-> "Verify", index |-> m.index])
                 /\ chan' = popped(r)
                 /\ UNCHANGED <<cfg, requested, index, execIdx, executed, results, answered,
                                crashed, panicked>>

\* The callback of verifyDispatcher.
Verified(r) ==
    \E j \in pending(r, "Verify") :
        /\ jobs' = withoutJob(r, j)
        /\ exec(r, [log[r] EXCEPT ![j.index].status = Committed])
        /\ UNCHANGED <<cfg, requested, index, chan, results, answered, crashed, panicked>>

\* Mutant of stepResult: one result is enough.
stepResultOfOne(r, c) ==
    /\ resultSent(r, c)
    /\ results' = [results EXCEPT ![c] = @ \cup {r}]
    /\ answered' = [answered EXCEPT ![c] = 1]
    /\ UNCHANGED <<cfg, requested, index, log, chan, jobs, execIdx, executed, crashed, panicked>>

\* Callback and stepResult, for the result of a replica.
stepResult(r, c) ==
    /\ resultSent(r, c)
    /\ results' = [results EXCEPT ![c] = @ \cup {r}]
    /\ answered' = [answered EXCEPT ![c] = IF Cardinality(results[c]) + 1 > cfg.f THEN 1 ELSE @]
    /\ UNCHANGED <<cfg, requested, index, log, chan, jobs, execIdx, executed, crashed, panicked>>

-----------------------------------------------------------------------------
Next ==
    \/ \E c \in Commands : onRequest(c) \/ \E r \in cfg.members : stepResult(r, c)
    \/ \E r \in cfg.members : onPrepare(r) \/ onCommit(r) \/ Verified(r) \/ Crash(r)
    \/ \E i \in 0 .. MaxIndex - 1 : onSignShare(i)
    \/ Aggregated
    \/ FaultyVote

Spec == Init /\ [][Next]_vars

\* No message, callback or share is left to act on at the replicas that run.
quiet == Quiet /\ sharedBy(Alive) = {}

\* A command is executed as instance i only with a certificate for it.
certified(i, c) == Majority(signers(i, c))
=============================================================================
