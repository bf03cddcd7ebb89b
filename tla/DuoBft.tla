------------------------------- MODULE DuoBft -------------------------------
(***************************************************************************)
(* protocols/duobft: one proposal, two commit rules.  Among 3f + 1         *)
(* replicas with trusted counters, a T-commit takes f + 1 votes and        *)
(* executes the commands whose clients chose it (Command.Meta is set); the *)
(* commit proper takes 2f + 1 PreCommits and then 2f + 1 Commits and       *)
(* executes the others.  Every message is verified and every vote signed   *)
(* by dispatchers with several workers, so that nothing stays in order.    *)
(* Indices count from 0 here, in the code from 1.                          *)
(***************************************************************************)
EXTENDS Cluster

\* voted and cVoted: the replica has signed and sent its PreCommit (the leader: its
\* Prepare), its Commit.  Until then the signing job is at the dispatcher.
makeInstance(c, voted) ==
    [status |-> "Prepared", tStatus |-> "TPrepared", command |-> c, voted |-> voted, cVoted |-> FALSE]

has(q, i) == i \in DOMAIN log[q]
voters(i) == {q \in Correct : has(q, i) /\ log[q][i].voted}
cVoters(i) == {q \in Correct : has(q, i) /\ log[q][i].cVoted}

\* The sizes of tcCert, pcCert and cCert.
tcMajority(votes) == Cardinality(votes) >= cfg.f + 1
pcMajority(votes) == Cardinality(votes) >= 2 * cfg.f + 1
cMajority(votes) == Cardinality(votes) >= 2 * cfg.f + 1

\* The instances that texec and exec pass, from log L of r; tExecute is one past the
\* last instance that is TExecuted.
tExecute(L) == loopEnd(0, {i \in DOMAIN L : L[i].tStatus = "TExecuted"})
texecEnd(L) == loopEnd(tExecute(L), {i \in DOMAIN L : L[i].tStatus = "TCommitted"})
execEnd(r, L) == loopEnd(execIdx[r], {i \in DOMAIN L : L[i].status = "Committed"})

\* The commands of sequence s with a Command.Meta, or those without, in their order.
chosen(s, meta) ==
    LET upTo[k \in 0 .. Len(s)] ==
            IF k = 0 THEN << >>
            ELSE IF (s[k] \in cfg.meta) = meta THEN Append(upTo[k - 1], s[k]) ELSE upTo[k - 1]
    IN  upTo[Len(s)]

commandsOf(L, from, to, meta) == chosen([k \in 1 .. to - from |-> L[from + k - 1].command], meta)

\* texec
texec(r, L) ==
    LET from == tExecute(L)
        to == texecEnd(L)
    IN  /\ log' = [log EXCEPT ![r] = [i \in DOMAIN L |->
                      IF i \in from .. to - 1 THEN [L[i] EXCEPT !.tStatus = "TExecuted"] ELSE L[i]]]
        /\ executed' = [executed EXCEPT ![r] = @ \o commandsOf(L, from, to, TRUE)]
        /\ UNCHANGED execIdx

exec(r, L) ==
    LET from == execIdx[r]
        to == execEnd(r, L)
    IN  /\ log' = [log EXCEPT ![r] = [i \in DOMAIN L |->
                      IF i \in from .. to - 1 THEN [L[i] EXCEPT !.status = "Executed"] ELSE L[i]]]
        /\ executed' = [executed EXCEPT ![r] = @ \o commandsOf(L, from, to, FALSE)]
        /\ execIdx' = [execIdx EXCEPT ![r] = to]

-----------------------------------------------------------------------------
(* The proposal *)

rest == <<cfg, chan, jobs, results, answered, crashed, panicked>>

onRequest(c) ==
    /\ Leader \in Alive /\ newCommand(c)
    /\ requested' = requested \cup {c}
    /\ index' = [index EXCEPT ![Leader] = @ + 1]
    /\ log' = [log EXCEPT ![Leader] = put(@, index[Leader], makeInstance(c, TRUE))]
    /\ UNCHANGED <<execIdx, executed, rest>>

\* onPrepare of the leader's proposal, once it is signed and verified.
onPrepare(r, i) ==
    /\ r \in Alive /\ Leader \in Correct /\ has(Leader, i) /\ ~has(r, i)
    /\ log' = [log EXCEPT ![r] = put(@, i, makeInstance(log[Leader][i].command, FALSE))]
    /\ UNCHANGED <<requested, index, execIdx, executed, rest>>

\* Both tests of the PreCommit votes, with these votes logged.
tTest(inst, votes) == inst.tStatus = "TPrepared" /\ tcMajority(votes)
pTest(inst, votes) == inst.status = "Prepared" /\ pcMajority(votes)

afterTests(inst, votes) ==
    [inst EXCEPT !.tStatus = IF tTest(inst, votes) THEN "TCommitted" ELSE @,
                 !.status = IF pTest(inst, votes) THEN "PreCommitted" ELSE @]

tally(r, i, inst, votes) ==
    LET L == [log[r] EXCEPT ![i] = afterTests(inst, votes)]
    IN  IF tTest(inst, votes) THEN texec(r, L)
        ELSE log' = [log EXCEPT ![r] = L] /\ UNCHANGED <<execIdx, executed>>

\* The callback of dispatcher2 in onPrepare: its PreCommit leaves and is logged
\* beside the leader's and those that have arrived.
PreCommitSigned(r, i) ==
    /\ r \in Alive /\ has(r, i) /\ ~log[r][i].voted
    /\ \E early \in SUBSET (voters(i) \ {Leader, r}) :
          tally(r, i, [log[r][i] EXCEPT !.voted = TRUE], early \cup {Leader, r})
    /\ UNCHANGED <<requested, index, rest>>

\* onPreCommit, with a PreCommit that completes a quorum or finds one complete.
onPreCommit(r, i) ==
    /\ r \in Alive /\ has(r, i)
    /\ \E votes \in SUBSET voters(i) :
          /\ Leader \in votes /\ (r \in votes <=> log[r][i].voted)
          /\ tTest(log[r][i], votes) \/ pTest(log[r][i], votes)
          /\ tally(r, i, log[r][i], votes)
    /\ UNCHANGED <<requested, index, rest>>

-----------------------------------------------------------------------------
(* The commit *)

\* The test of the Commit votes.
commit(r, i, inst, votes) ==
    LET ok == inst.status = "PreCommitted" /\ cMajority(votes)
        L == [log[r] EXCEPT ![i] = [inst EXCEPT !.status = IF ok THEN "Committed" ELSE @]]
    IN  IF ok THEN exec(r, L) ELSE log' = [log EXCEPT ![r] = L] /\ UNCHANGED <<execIdx, executed>>

\* The callback that signs the Commit of a PreCommitted instance, which the Commits of
\* others may have committed meanwhile.
CommitSigned(r, i) ==
    /\ r \in Alive /\ has(r, i) /\ log[r][i].status # "Prepared" /\ ~log[r][i].cVoted
    /\ \E early \in SUBSET (cVoters(i) \ {r}) :
          commit(r, i, [log[r][i] EXCEPT !.cVoted = TRUE], early \cup {r})
    /\ UNCHANGED <<requested, index, rest>>

\* onCommit, with the Commit that completes the quorum.
onCommit(r, i) ==
    /\ r \in Alive /\ has(r, i) /\ log[r][i].status = "PreCommitted" /\ cMajority(cVoters(i))
    /\ commit(r, i, log[r][i], cVoters(i))
    /\ UNCHANGED <<requested, index, rest>>

-----------------------------------------------------------------------------
Next ==
    \/ \E c \in Commands : onRequest(c)
    \/ \E r \in cfg.members, i \in 0 .. MaxIndex - 1 :
          \/ onPrepare(r, i) \/ PreCommitSigned(r, i) \/ onPreCommit(r, i)
          \/ CommitSigned(r, i) \/ onCommit(r, i)
    \/ \E r \in cfg.members : Crash(r)

Spec == Init /\ [][Next]_vars

\* Every vote of the replicas that run has been counted by them.
quiet ==
    \A r \in Alive : \A i \in DOMAIN log[Leader] :
        /\ has(r, i) /\ log[r][i].voted
        /\ ~tTest(log[r][i], voters(i) \cap Alive) /\ ~pTest(log[r][i], voters(i) \cap Alive)
        /\ log[r][i].status # "Prepared" => log[r][i].cVoted
        /\ log[r][i].status = "PreCommitted" => ~cMajority(cVoters(i) \cap Alive)

\* A command is executed only with the votes that the rule its client chose asks for.
certified(c) ==
    \E i \in 0 .. MaxIndex - 1 :
        LET hold == {q \in Correct : has(q, i) /\ log[q][i].command = c}
        IN  IF c \in cfg.meta THEN tcMajority(voters(i) \cap hold) ELSE cMajority(cVoters(i) \cap hold)
=============================================================================
