------------------------------- MODULE Hybster -------------------------------
(***************************************************************************)
(* protocols/hybster without its view change: as in protocols/minbft, the  *)
(* leader's Prepare and the others' Commits are votes of one quorum of     *)
(* f + 1 of the 2f + 1 replicas.  An instance gives its command away when  *)
(* it is executed, and a vote that is logged twice stops the replica.      *)
(* Slots count from 0 here, in the code from 1.                            *)
(***************************************************************************)
EXTENDS Cluster

\* hash stands for commandHash, quorum for the replicas whose votes it has logged.
makeInstance(command, hash) ==
    [command |-> command, hash |-> hash, prepared |-> FALSE, commit |-> FALSE, executed |-> FALSE,
     quorum |-> {}]

instWith(r, i, hash) ==
    IF i \in DOMAIN log[r] THEN [log[r][i] EXCEPT !.hash = hash] ELSE makeInstance(Nil, hash)

Majority(inst) == Cardinality(inst.quorum) > cfg.f

exec(r, L) ==
    LET next == loopEnd(execIdx[r], {i \in DOMAIN L : L[i].commit /\ L[i].command # Nil})
        done == execIdx[r] .. next - 1
    IN  /\ log' = [log EXCEPT ![r] = [i \in DOMAIN L |->
                      IF i \in done THEN [L[i] EXCEPT !.command = Nil, !.executed = TRUE] ELSE L[i]]]
        /\ executed' = [executed EXCEPT ![r] =
                           @ \o [k \in 1 .. next - execIdx[r] |-> L[execIdx[r] + k - 1].command]]
        /\ execIdx' = [execIdx EXCEPT ![r] = next]

\* The end of onPrepare and onCommit, for the instance they have updated.
tally(r, i, inst) ==
    IF inst.prepared /\ ~inst.commit /\ Majority(inst)
    THEN exec(r, put(log[r], i, [inst EXCEPT !.commit = TRUE]))
    ELSE log' = [log EXCEPT ![r] = put(@, i, inst)] /\ UNCHANGED <<execIdx, executed>>

\* broadcastNormal of a Commit: jobs[r] holds the votes of others that r has not read.
vote(r, i, hash) ==
    [q \in Replicas |-> IF q \in Alive \ {r}
                        THEN withOne(jobs[q], [type |-> "Commit", from |-> r, index |-> i, hash |-> hash])
                        ELSE jobs[q]]

-----------------------------------------------------------------------------
onRequest(c) ==
    /\ Leader \in Alive /\ newCommand(c)
    /\ requested' = requested \cup {c}
    /\ index' = [index EXCEPT ![Leader] = @ + 1]
    /\ log' = [log EXCEPT ![Leader] = put(@, index[Leader],
                  [makeInstance(c, c) EXCEPT !.prepared = TRUE, !.quorum = {Leader}])]
    /\ chan' = sendTo(cfg.members \ {Leader}, [type |-> "Prepare", index |-> index[Leader], val |-> c])
    /\ UNCHANGED <<cfg, jobs, execIdx, executed, results, answered, crashed, panicked>>

onPrepare(r) ==
    \E m \in received(r, "Prepare") :
        LET old == instWith(r, m.index, m.val)
            inst == [old EXCEPT !.command = m.val, !.prepared = TRUE, !.quorum = @ \cup {Leader, r}]
        IN  IF \/ differs(r, m.index, "command", m.val) \/ differs(r, m.index, "hash", m.val)
               \/ {Leader, r} \cap old.quorum # {}
            THEN Panic(r)
            ELSE /\ tally(r, m.index, inst)
                 /\ index' = [index EXCEPT ![r] = Max({@, m.index + 1})]
                 /\ jobs' = vote(r, m.index, m.val)
                 /\ chan' = popped(r)
                 /\ UNCHANGED <<cfg, requested, results, answered, crashed, panicked>>

onCommit(r) ==
    \E m \in pending(r, "Commit") :
        LET old == instWith(r, m.index, m.hash)
        IN  IF differs(r, m.index, "hash", m.hash) \/ m.from \in old.quorum THEN Panic(r)
            ELSE /\ tally(r, m.index, [old EXCEPT !.quorum = @ \cup {m.from}])
                 /\ index' = [index EXCEPT ![r] = Max({@, m.index + 1})]
                 /\ jobs' = withoutJob(r, m)
                 /\ UNCHANGED <<cfg, requested, chan, results, answered, crashed, panicked>>

-----------------------------------------------------------------------------
Next ==
    \/ \E c \in Commands : onRequest(c)
    \/ \E r \in cfg.members : onPrepare(r) \/ onCommit(r) \/ Crash(r)

Spec == Init /\ [][Next]_vars

\* A command is executed in slot i only with the votes of a quorum.
certified(i, c) ==
    Cardinality({q \in Correct : i \in DOMAIN log[q] /\ log[q][i].prepared /\ log[q][i].hash = c}) > cfg.f
=============================================================================
