------------------------------ MODULE SbftSlow ------------------------------
(***************************************************************************)
(* protocols/sbftslow: the linear path of SBFT with one more phase.  The   *)
(* leader aggregates shares of 2f + c + 1 of the 3f + 2c + 1 replicas      *)
(* twice: once that they have its proposal, which it broadcasts as a       *)
(* Prepare, and once that they have that Prepare, which commits.           *)
(***************************************************************************)
EXTENDS Cluster

None == 0           \* InstanceState_Status
Preprepared == 1
SignShared == 2
Prepared == 3
CommitSigShared == 4
Committed == 5
Executed == 7

\* signed, cSigned: the replica has sent its SignShare, its CommitSig.
makeInstance(status, command, hash) ==
    [status |-> status, command |-> command, hash |-> hash, signed |-> FALSE, cSigned |-> FALSE]

\* The instance i of r, made if it is missing, after updateCommandHash.
instWith(r, i, hash) ==
    IF i \in DOMAIN log[r] THEN [log[r][i] EXCEPT !.hash = hash] ELSE makeInstance(None, Nil, hash)

IsCommitted(inst) == inst.status = Committed

\* exec, for a replica whose log has become L; the instances keep their commands.
exec(r, L) ==
    LET next == loopEnd(execIdx[r], {i \in DOMAIN L : IsCommitted(L[i]) /\ L[i].command # Nil})
        done == execIdx[r] .. next - 1
    IN  /\ log' = [log EXCEPT ![r] = [i \in DOMAIN L |->
                      IF i \in done THEN [L[i] EXCEPT !.status = Executed] ELSE L[i]]]
        /\ executed' = [executed EXCEPT ![r] =
                           @ \o [k \in 1 .. next - execIdx[r] |-> L[execIdx[r] + k - 1].command]]
        /\ execIdx' = [execIdx EXCEPT ![r] = next]

-----------------------------------------------------------------------------
(* The leader's proposal and its first certificate *)

onRequest(c) ==
    /\ Leader \in Alive /\ newCommand(c)
    /\ requested' = requested \cup {c}
    /\ index' = [index EXCEPT ![Leader] = @ + 1]
    /\ log' = [log EXCEPT ![Leader] = put(@, index[Leader], makeInstance(Preprepared, c, Nil))]
    /\ chan' = sendTo(cfg.members, [type |-> "Preprepare", index |-> index[Leader], val |-> c])
    /\ UNCHANGED <<cfg, jobs, execIdx, executed, results, answered, crashed, panicked>>

\* onPreprepare, which signs a share and sends it to the leader.  The leader's own
\* may be late; it then signs nothing.  (The code does not compare the sender with the
\* leader; a faulty follower proposes nothing here.)
onPreprepare(r) ==
    \E m \in received(r, "Preprepare") :
        IF differs(r, m.index, "command", m.val) \/ differs(r, m.index, "hash", m.val) THEN Panic(r)
        ELSE LET inst == [instWith(r, m.index, m.val) EXCEPT !.command = m.val]
             IN  /\ IF IsCommitted(inst) THEN exec(r, put(log[r], m.index, inst))
                    ELSE /\ log' = [log EXCEPT ![r] = put(@, m.index,
                                       IF inst.status > Preprepared THEN inst
                                       ELSE [inst EXCEPT !.status = Preprepared, !.signed = TRUE])]
                         /\ UNCHANGED <<execIdx, executed>>
                 /\ chan' = popped(r)
                 /\ UNCHANGED <<cfg, requested, index, jobs, results, answered, crashed, panicked>>

\* The replicas that have sent a share (field signed) or a CommitSig (field cSigned)
\* for command c and instance i.
signers(field, i, c) ==
    {q \in Correct : i \in DOMAIN log[q] /\ log[q][i][field] /\ log[q][i].hash = c} \cup cfg.faulty

\* Mutant of threshold: off by one.
thresholdLess == 2 * cfg.f + cfg.c

\* The threshold of the signature scheme, and of the leader's tests.
threshold == 2 * cfg.f + cfg.c + 1

Majority(votes) == Cardinality(votes) >= threshold

\* The instances whose quorum the leader completes with the votes of these replicas.
sharedBy(field, status, replicas) ==
    {i \in DOMAIN log[Leader] : log[Leader][i].status < status
                                /\ \E c \in Commands : Majority(signers(field, i, c) \cap replicas)}

\* The leader has a quorum of signatures and gives them to aggDispatcher.
aggregate(i, field, status, job) ==
    \E c \in Commands :
        /\ Leader \in Alive /\ i \in sharedBy(field, status, cfg.members)
        /\ Majority(signers(field, i, c))
        /\ IF differs(Leader, i, "hash", c) THEN Panic(Leader)
           ELSE /\ log' = [log EXCEPT ![Leader][i] = [instWith(Leader, i, c) EXCEPT !.status = status]]
                /\ jobs' = withJob(Leader, [type |-> job, index |-> i, hash |-> c])
                /\ UNCHANGED <<cfg, requested, index, chan, execIdx, executed, results, answered,
                               crashed, panicked>>

\* onSignShare and onCommitSig, with the vote that completes the quorum.
onSignShare(i) == aggregate(i, "signed", SignShared, "Aggregate")
onCommitSig(i) == aggregate(i, "cSigned", CommitSigShared, "AggregateSlow")

\* The callback of aggDispatcher for the first certificate.
Aggregated ==
    \E j \in pending(Leader, "Aggregate") :
        /\ jobs' = withoutJob(Leader, j)
        /\ chan' = sendTo(cfg.members, [type |-> "Prepare", index |-> j.index, val |-> j.hash])
        /\ UNCHANGED <<cfg, requested, index, log, execIdx, executed, results, answered, crashed, panicked>>

-----------------------------------------------------------------------------
(* The second certificate, and the commit *)

\* onPrepare: once the certificate verifies, the replica sends its CommitSig.
onPrepare(r) ==
    \E m \in received(r, "Prepare") :
        IF differs(r, m.index, "hash", m.val) THEN Panic(r)
        ELSE LET inst == instWith(r, m.index, m.val)
             IN  /\ log' = [log EXCEPT ![r] = put(@, m.index,
                               IF inst.status > Prepared THEN inst
                               ELSE [inst EXCEPT !.status = Prepared, !.cSigned = TRUE])]
                 /\ chan' = popped(r)
                 /\ UNCHANGED <<cfg, requested, index, jobs, execIdx, executed, results, answered,
                                crashed, panicked>>

\* The callback of aggDispatcher for the second certificate.
AggregatedSlow ==
    \E j \in pending(Leader, "AggregateSlow") :
        /\ jobs' = withoutJob(Leader, j)
        /\ chan' = sendTo(cfg.members \ {Leader}, [type |-> "CommitSlow", index |-> j.index, val |-> j.hash])
        /\ exec(Leader, [log[Leader] EXCEPT ![j.index].status = Committed])
        /\ UNCHANGED <<cfg, requested, index, results, answered, crashed, panicked>>

onCommit(r) ==
    \E m \in received(r, "CommitSlow") :
        IF differs(r, m.index, "hash", m.val) THEN Panic(r)
        ELSE LET inst == instWith(r, m.index, m.val)
             IN  /\ log' = [log EXCEPT ![r] = put(@, m.index, inst)]
                 /\ jobs' = IF inst.status >= Committed THEN jobs
                            ELSE withJob(r, [type |-> "Verify", index |-> m.index])
                 /\ chan' = popped(r)
                 /\ UNCHANGED <<cfg, requested, index, execIdx, executed, results, answered,
                                crashed, panicked>>

\* The callback of verifyDispatcher.
Verified(r) ==
    \E j \in pending(r, "Verify") :
        /\ jobs' = withoutJob(r, j)
        /\ exec(r, [log[r] EXCEPT ![j.index].status = Committed])
        /\ UNCHANGED <<cfg, requested, index, chan, results, answered, crashed, panicked>>

\* Callback and stepResult, for the result of a replica: every one past f is an answer.
stepResult(r, c) ==
    /\ resultSent(r, c)
    /\ results' = [results EXCEPT ![c] = @ \cup {r}]
    /\ answered' = [answered EXCEPT ![c] = IF Cardinality(results[c]) + 1 > cfg.f THEN @ + 1 ELSE @]
    /\ UNCHANGED <<cfg, requested, index, log, chan, jobs, execIdx, executed, crashed, panicked>>

-----------------------------------------------------------------------------
(* A faulty leader *)

faultySends(r, type, i, c) ==
    /\ Leader \in cfg.faulty /\ r \in Alive /\ chan[r] = << >> /\ jobs[r] = noJobs
    /\ chan' = sendTo({r}, [type |-> type, index |-> i, val |-> c])
    /\ UNCHANGED <<cfg, index, log, jobs, execIdx, executed, results, answered, crashed, panicked>>

\* It proposes what it likes, to each replica once.
FaultyPreprepare(r, i, c) ==
    /\ i \in 0 .. cfg.commands - 1 /\ i \notin DOMAIN log[r]
    /\ faultySends(r, "Preprepare", i, c) /\ requested' = requested \cup {c}

\* It can only send certificates that verify: Verify panics at any other.
FaultyCertificate(r, i, c) ==
    /\ \/ /\ Majority(signers("signed", i, c)) /\ (i \in DOMAIN log[r] => ~log[r][i].cSigned)
          /\ faultySends(r, "Prepare", i, c)
       \/ /\ Majority(signers("cSigned", i, c)) /\ (i \in DOMAIN log[r] => log[r][i].status < Committed)
          /\ faultySends(r, "CommitSlow", i, c)
    /\ UNCHANGED requested

-----------------------------------------------------------------------------
Next ==
    \/ \E c \in Commands : onRequest(c) \/ \E r \in cfg.members : stepResult(r, c)
    \/ \E r \in cfg.members : onPreprepare(r) \/ onPrepare(r) \/ onCommit(r) \/ Verified(r) \/ Crash(r)
    \/ \E i \in 0 .. MaxIndex - 1 : onSignShare(i) \/ onCommitSig(i)
    \/ Aggregated
    \/ AggregatedSlow
    \/ FaultyVote
    \/ \E r \in cfg.members, i \in 0 .. MaxIndex - 1, c \in Commands :
          FaultyPreprepare(r, i, c) \/ FaultyCertificate(r, i, c)

Spec == Init /\ [][Next]_vars

\* No message, callback or vote is left to act on at the replicas that run.
quiet == Quiet /\ sharedBy("signed", SignShared, Alive) = {}
               /\ sharedBy("cSigned", CommitSigShared, Alive) = {}

\* A command is executed as instance i only with the second certificate for it.
certified(i, c) == Majority(signers("cSigned", i, c))
=============================================================================
