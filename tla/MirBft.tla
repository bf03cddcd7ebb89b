------------------------------- MODULE MirBft -------------------------------
(***************************************************************************)
(* protocols/mirbft: PBFT's three phases for every index of one log, whose *)
(* indices the replicas lead in turn (epoch 0, the only one, has all of    *)
(* them as leaders).  A command is executed when all indices before it     *)
(* are, also those of other leaders.  The signing dispatcher has several   *)
(* workers, so that messages overtake one another.                         *)
(***************************************************************************)
EXTENDS Cluster

N == Cardinality(cfg.members)

\* The peers' ids are their places in cfg.peers, from 0.
id(r) == CHOOSE k \in 0 .. N - 1 : cfg.peers[k + 1] = r
leaderOfSeq(i) == cfg.peers[(i % N) + 1]

instance(status, command) == [status |-> status, command |-> command, val |-> command]
has(q, i) == i \in DOMAIN log[q]

\* Quorum.Majority, for the senders of equal votes.
Majority(votes) == Cardinality(votes) > 2 * cfg.f

\* The replicas that have sent a Prepare, or the PrePrepare, and a Commit.
prepareVoters(i, c) == {q \in Correct : has(q, i) /\ log[q][i].val = c} \cup cfg.faulty
commitVoters(i, c) ==
    {q \in Correct : has(q, i) /\ log[q][i].val = c /\ log[q][i].status # "PrePrepared"} \cup cfg.faulty

\* Mutant of exec: it stops at nothing but the end of the log.
execOverGaps(r, L) ==
    LET set == {i \in DOMAIN L : L[i].status = "Committed"}
        ready == [k \in 1 .. Cardinality(set) |->
                     CHOOSE i \in set : Cardinality({j \in set : j < i}) = k - 1]
    IN  /\ log' = [log EXCEPT ![r] = [i \in DOMAIN L |->
                      IF i \in Range(ready) THEN [L[i] EXCEPT !.command = Nil, !.status = "Executed"] ELSE L[i]]]
        /\ executed' = [executed EXCEPT ![r] = @ \o [k \in DOMAIN ready |-> L[ready[k]].command]]
        /\ UNCHANGED execIdx

exec(r, L) ==
    LET next == loopEnd(execIdx[r], {i \in DOMAIN L : L[i].status = "Committed"})
        done == execIdx[r] .. next - 1
    IN  /\ log' = [log EXCEPT ![r] = [i \in DOMAIN L |->
                      IF i \in done THEN [L[i] EXCEPT !.command = Nil, !.status = "Executed"] ELSE L[i]]]
        /\ executed' = [executed EXCEPT ![r] =
                           @ \o [k \in 1 .. next - execIdx[r] |-> L[execIdx[r] + k - 1].command]]
        /\ execIdx' = [execIdx EXCEPT ![r] = next]

\* The statuses that the shared end of onPrePrepare and onPrepare may give: the
\* replica's own votes count beside those that have arrived.
statuses(r, i, c, from) ==
    {status \in {"PrePrepared", "Prepared", "Committed"} :
        \E p \in SUBSET prepareVoters(i, c), v \in SUBSET commitVoters(i, c) :
            status = IF ~Majority(p \cup {from, r}) THEN "PrePrepared"
                     ELSE IF ~Majority(v \cup {r}) THEN "Prepared" ELSE "Committed"}

store(r, i, status, inst) ==
    LET L == put(log[r], i, [inst EXCEPT !.status = status])
    IN  IF status = "Committed" THEN exec(r, L)
        ELSE log' = [log EXCEPT ![r] = L] /\ UNCHANGED <<execIdx, executed>>

-----------------------------------------------------------------------------
rest == <<cfg, chan, jobs, results, answered, crashed, panicked>>

onRequest(r, c) ==
    LET i == id(r) + N * index[r]       \* nextLocalIndex
    IN  /\ r \in Alive \cap cfg.clients /\ newCommand(c) /\ i < MaxIndex
        /\ requested' = requested \cup {c}
        /\ index' = [index EXCEPT ![r] = @ + 1]
        /\ log' = [log EXCEPT ![r] = put(@, i, instance("PrePrepared", c))]
        /\ UNCHANGED <<execIdx, executed, rest>>

\* onPrePrepare, from the leader of the index; a faulty one sends what it likes.
onPrePrepare(r, i, c) ==
    LET from == leaderOfSeq(i)
    IN  /\ r \in Alive \ {from} /\ from \in cfg.clients /\ ~has(r, i)
        /\ IF from \in Correct THEN has(from, i) /\ log[from][i].val = c ELSE i < N
        /\ \E status \in statuses(r, i, c, from) : store(r, i, status, instance(status, c))
        /\ requested' = requested \cup {c}
        /\ UNCHANGED <<index, rest>>

\* onPrepare, with the Prepare that completes the quorum.
onPrepare(r, i) ==
    /\ r \in Alive /\ has(r, i) /\ log[r][i].status = "PrePrepared"
    /\ \E status \in statuses(r, i, log[r][i].val, r) \ {"PrePrepared"} :
          store(r, i, status, log[r][i])
    /\ UNCHANGED <<requested, index, rest>>

\* onCommit, with the Commit that completes the quorum.
onCommit(r, i) ==
    /\ r \in Alive /\ has(r, i) /\ log[r][i].status = "Prepared"
    /\ Majority(commitVoters(i, log[r][i].val))
    /\ store(r, i, "Committed", log[r][i])
    /\ UNCHANGED <<requested, index, rest>>

\* updateCommandHash, with the hashes of a PrePrepare and of another replica's vote for
\* something else, in either order.
Contradicted(r, i) ==
    /\ r \in Alive /\ leaderOfSeq(i) \in cfg.faulty
    /\ \E q \in Correct \ {r} : has(q, i) /\ ~(has(r, i) /\ log[r][i].val = log[q][i].val)
    /\ Panic(r)

-----------------------------------------------------------------------------
Next ==
    \/ \E r \in cfg.members, c \in Commands : onRequest(r, c)
    \/ \E r \in cfg.members, i \in 0 .. MaxIndex - 1 :
          onPrepare(r, i) \/ onCommit(r, i) \/ Contradicted(r, i) \/ \E c \in Commands : onPrePrepare(r, i, c)
    \/ \E r \in cfg.members : Crash(r)

Spec == Init /\ [][Next]_vars

\* Every vote of the replicas that run has been counted by them.
quiet ==
    \A r \in Alive : \A i \in 0 .. MaxIndex - 1 :
        has(leaderOfSeq(i), i) =>
            /\ has(r, i) /\ log[r][i].status # "Prepared"
            /\ log[r][i].status = "PrePrepared" => ~Majority(prepareVoters(i, log[r][i].val) \cap Alive)

\* The commands that a replica can execute: those behind an index whose leader has
\* proposed nothing wait for it.
deliverable ==
    {log[leaderOfSeq(i)][i].val :
        i \in {k \in 0 .. MaxIndex - 1 : \A j \in 0 .. k : has(leaderOfSeq(j), j)}}

\* A command is executed only with the Commits of a quorum for its index.
certified(i, c) == Majority(commitVoters(i, c))
=============================================================================
