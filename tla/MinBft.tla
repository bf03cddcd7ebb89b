------------------------------- MODULE MinBft -------------------------------
(***************************************************************************)
(* protocols/minbft: two phases among 2f + 1 replicas with a trusted       *)
(* counter each.  The leader's Prepare and the others' Commits count as    *)
(* votes of one quorum of f + 1.  Slots count from 0 here, in the code     *)
(* from 1.  The certificates' counters are verified but never compared, so *)
(* that the model has replicas that crash and none that lie.               *)
(***************************************************************************)
EXTENDS Cluster

\* A follower's instance exists, here, from its Prepare on: one that a Commit has
\* made before only collects votes.
makeInstance(c) == [command |-> c, prepared |-> TRUE, commit |-> FALSE, executed |-> FALSE]

\* The replicas that have voted for slot i.
voters(i) == {q \in Correct : i \in DOMAIN log[q] /\ log[q][i].prepared}

Majority(votes) == Cardinality(votes) > cfg.f

exec(r, L) ==
    LET next == loopEnd(execIdx[r], {i \in DOMAIN L : L[i].commit})
        done == execIdx[r] .. next - 1
    IN  /\ log' = [log EXCEPT ![r] = [i \in DOMAIN L |->
                      IF i \in done THEN [L[i] EXCEPT !.executed = TRUE] ELSE L[i]]]
        /\ executed' = [executed EXCEPT ![r] =
                           @ \o [k \in 1 .. next - execIdx[r] |-> L[execIdx[r] + k - 1].command]]
        /\ execIdx' = [execIdx EXCEPT ![r] = next]

\* The end of onPrepare and onCommit, with these votes for slot i of log L.
tally(r, i, L, votes) ==
    IF L[i].prepared /\ ~L[i].commit /\ Majority(votes)
    THEN exec(r, [L EXCEPT ![i].commit = TRUE])
    ELSE log' = [log EXCEPT ![r] = L] /\ UNCHANGED <<execIdx, executed>>

onRequest(c) ==
    /\ Leader \in Alive /\ newCommand(c)
    /\ requested' = requested \cup {c}
    /\ index' = [index EXCEPT ![Leader] = @ + 1]
    /\ log' = [log EXCEPT ![Leader] = put(@, index[Leader], makeInstance(c))]
    /\ chan' = sendTo(cfg.members \ {Leader}, [type |-> "Prepare", index |-> index[Leader], val |-> c])
    /\ UNCHANGED <<cfg, jobs, execIdx, executed, results, answered, crashed, panicked>>

\* onPrepare: the leader's vote, its own and those that arrived before.
onPrepare(r) ==
    \E m \in received(r, "Prepare") :
        /\ \E early \in SUBSET (voters(m.index) \ {r}) :
              tally(r, m.index, put(log[r], m.index, makeInstance(m.val)), early \cup {Leader, r})
        /\ index' = [index EXCEPT ![r] = Max({@, m.index + 1})]
        /\ chan' = popped(r)
        /\ UNCHANGED <<cfg, requested, jobs, results, answered, crashed, panicked>>

\* The slots of r whose quorum the votes of these replicas complete.
open(r, replicas) ==
    {i \in DOMAIN log[r] : ~log[r][i].commit /\ Majority(voters(i) \cap replicas)}

\* onCommit, with the Commit that completes the quorum.
onCommit(r, i) ==
    /\ r \in Alive /\ i \in open(r, Correct)
    /\ tally(r, i, log[r], voters(i))
    /\ UNCHANGED <<cfg, requested, index, chan, jobs, results, answered, crashed, panicked>>

-----------------------------------------------------------------------------
Next ==
    \/ \E c \in Commands : onRequest(c)
    \/ \E r \in cfg.members : onPrepare(r) \/ Crash(r) \/ \E i \in 0 .. MaxIndex - 1 : onCommit(r, i)

Spec == Init /\ [][Next]_vars

\* No message or vote is left to act on at the replicas that run.
quiet == Quiet /\ \A r \in Alive : open(r, Alive) = {}

\* A command is executed in slot i only with the votes of a quorum.
certified(i, c) == Majority({q \in voters(i) : log[q][i].command = c})
=============================================================================
