------------------------------- MODULE DqPbft -------------------------------
(***************************************************************************)
(* protocols/dqpbft: every replica proposes its own clients' commands in   *)
(* instances of its own (the C log), and the primary of the view oview     *)
(* orders the names of those instances, in batches, in a second log (the O *)
(* log).  Both logs run PBFT's three phases side by side, and exec hands   *)
(* out commands as far as both of them have got.                           *)
(*                                                                         *)
(* A vote changes nothing before it completes a quorum, so the model does  *)
(* not step votes one by one: a certificate is any set of votes that have  *)
(* been sent when the handler runs that tests it, and what a correct       *)
(* replica has sent is read off its instance.  A faulty replica is silent, *)
(* or it votes for everything and proposes anything in one of the logs:    *)
(* in the C log in any instance, other replicas' instances included, since *)
(* onPrePrepare does not look at the sender.  A replica that meets a       *)
(* conflicting proposal or vote panics, which is the end of its steps.     *)
(*                                                                         *)
(* A replica that has voted for somebody else's proposal in an instance of *)
(* its own overwrites that vote when it comes to use the instance:         *)
(* onRequest does not look whether the entry exists.  From then on it has  *)
(* voted for two values and nothing below holds.  overwritten remembers    *)
(* it, the claims are made up to then (NoneOverwritten), and the model     *)
(* ends there: the votes are no longer those that the instances show.      *)
(***************************************************************************)
EXTENDS Integers, Sequences, SequencesExt, FiniteSets

CONSTANTS
    N, F,           \* replicas 0 .. N - 1, and cfg.MaxFailures
    Faulty,         \* the replicas that may deviate from the code
    Commands, Nil,  \* commands of clients, and no value yet
    Scenarios,      \* the clusters to look at
    MaxIndex,       \* bound on the instances of one replica
    MaxOIndex       \* bound on the batches of the O log

Replicas == 0 .. N - 1
Correct == Replicas \ Faulty
InstanceIDs == Replicas \X (0 .. MaxIndex - 1)
OIndices == 0 .. MaxOIndex - 1

\* LocalConfig's LeaderID and DqOBatchSize, the replicas that have clients, the
\* log in which the faulty replicas misbehave and a bound on the batches.
Scenario == [LeaderID : Replicas, oBatchSize : Nat \ {0}, clients : SUBSET Replicas,
             attack : {"None", "C", "O"}, batches : 0 .. MaxOIndex]

ASSUME DqAssumption ==
    /\ N \in Nat \ {0} /\ F \in Nat /\ N <= 3 * F + 1
    /\ Faulty \subseteq Replicas /\ Cardinality(Faulty) <= F
    /\ MaxIndex \in Nat \ {0} /\ MaxOIndex \in Nat \ {0}
    /\ Scenarios \subseteq Scenario
    /\ Nil \notin Commands \cup Seq(InstanceIDs)

VARIABLES
    cfg,                \* the scenario, which nothing changes
    requested,          \* the commands that clients have sent
    index,              \* [Correct -> the next index of its own instances]
    log,                \* [Correct -> [InstanceIDs -> instance]]   d.log
    oindex,             \* [Correct -> the next index of the O log]
    olog,               \* [Correct -> [OIndices -> instance]]      d.olog
    cReqBuffer,         \* [Correct -> the instances waiting to be ordered]
    nextODeliverIndex,  \* [Correct -> the next batch to execute]
    executed,           \* [Correct -> the commands handed to the applier]
    overwritten         \* history: the instances in which the owner's onRequest
                        \* has overwritten a vote that it had sent

vars == <<cfg, requested, index, log, oindex, olog, cReqBuffer, nextODeliverIndex, executed,
          overwritten>>

Statuses == {"Absent", "PrePrepared", "Prepared", "Committed", "Executed"}
Certified == {"Prepared", "Committed", "Executed"}

\* An instance of either log; val is a command or a batch of instances.
NoInstance == [status |-> "Absent", val |-> Nil]
instance(status, val) == [status |-> status, val |-> val]

\* The view of the O log: there is no view change.
oview == cfg.LeaderID

isPrimaryAtView(id, v) == id = v % N

\* The replicas that vote for everything in a log.
Liars(name) == IF cfg.attack = name THEN Faulty ELSE {}

-----------------------------------------------------------------------------
(* Quorums.  L is log or olog, liars its liars, k an entry of it, v its value. *)

\* Mutant of Majority: off by one.
MajorityOfTwoF(cert) == Cardinality(cert) >= 2 * F

\* Quorum.Majority, for the senders of equal votes.
Majority(cert) == Cardinality(cert) > 2 * F

\* The replicas that have sent a Prepare, or the PrePrepare, with value v.
prepareVoters(L, liars, k, v) ==
    {s \in Correct : L[s][k].status # "Absent" /\ L[s][k].val = v}
        \cup liars

\* The replicas that have sent a Commit with value v.
commitVoters(L, liars, k, v) ==
    {s \in Correct : L[s][k].status \in Certified /\ L[s][k].val = v}
        \cup liars

\* The statuses that the shared end of onPrePrepare and onPrepare may give an
\* instance of r: it logs its own votes beside those that have arrived.
statuses(L, liars, r, k, v, from) ==
    {status \in {"PrePrepared", "Prepared", "Committed"} :
        \E p \in SUBSET prepareVoters(L, liars, k, v), c \in SUBSET commitVoters(L, liars, k, v) :
            status = IF ~Majority(p \cup {from, r}) THEN "PrePrepared"
                     ELSE IF ~Majority(c \cup {r}) THEN "Prepared" ELSE "Committed"}

-----------------------------------------------------------------------------
(* Execution *)

\* The instances of the batches from .. to - 1 of O log O.
named(O, from, to) == FlattenSeq([i \in 1 .. to - from |-> O[from + i - 1].val])

\* The loop of exec passes these batches: they are committed, and so is every
\* instance they name, none of which has been executed before.
deliverable(C, O, from, to) ==
    /\ \A i \in from .. to - 1 : i \in OIndices /\ O[i].status = "Committed"
    /\ LET ids == named(O, from, to)
       IN  \A i \in DOMAIN ids : /\ C[ids[i]].status = "Committed"
                                 /\ \A j \in 1 .. i - 1 : ids[j] # ids[i]

\* Mutant of exec: neither the batch nor its instances are marked as executed.
execAgain(r, C, O) ==
    \E next \in nextODeliverIndex[r] .. MaxOIndex :
        LET ids == named(O, nextODeliverIndex[r], next)
        IN  /\ deliverable(C, O, nextODeliverIndex[r], next)
            /\ ~deliverable(C, O, nextODeliverIndex[r], next + 1)
            /\ executed' = [executed EXCEPT ![r] = @ \o [i \in DOMAIN ids |-> C[ids[i]].val]]
            /\ log' = [log EXCEPT ![r] = C]
            /\ olog' = [olog EXCEPT ![r] = O]
            /\ UNCHANGED nextODeliverIndex

\* exec, for a replica with the logs C and O.
exec(r, C, O) ==
    \E next \in nextODeliverIndex[r] .. MaxOIndex :
        LET from == nextODeliverIndex[r]
            ids == named(O, from, next)
        IN  /\ deliverable(C, O, from, next) /\ ~deliverable(C, O, from, next + 1)
            /\ executed' = [executed EXCEPT ![r] = @ \o [i \in DOMAIN ids |-> C[ids[i]].val]]
            /\ log' = [log EXCEPT ![r] = [id \in InstanceIDs |->
                          IF id \in Range(ids) THEN [C[id] EXCEPT !.status = "Executed"] ELSE C[id]]]
            /\ olog' = [olog EXCEPT ![r] = [i \in OIndices |->
                          IF i \in from .. next - 1 THEN [O[i] EXCEPT !.status = "Executed"] ELSE O[i]]]
            /\ nextODeliverIndex' = [nextODeliverIndex EXCEPT ![r] = next]

\* The handlers call exec when the status has become Committed.
store(r, C, O, status) ==
    IF status = "Committed" THEN exec(r, C, O)
    ELSE /\ log' = [log EXCEPT ![r] = C]
         /\ olog' = [olog EXCEPT ![r] = O]
         /\ UNCHANGED <<nextODeliverIndex, executed>>

\* Mutant of storeC: only the O log's handlers call exec.
storeCOnly(r, C, O, status) ==
    /\ log' = [log EXCEPT ![r] = C]
    /\ olog' = [olog EXCEPT ![r] = O]
    /\ UNCHANGED <<nextODeliverIndex, executed>>

storeC(r, C, O, status) == store(r, C, O, status)

-----------------------------------------------------------------------------
(* Ordering requests at the primary of oview *)

\* Mutant of sendCRequest: the batch does not use up its index.
sendCRequestAgain(r) ==
    /\ cReqBuffer' = [cReqBuffer EXCEPT ![r] = << >>]
    /\ UNCHANGED oindex

\* sendCRequest: the buffered instances become the next batch of the O log.
sendCRequest(r) ==
    /\ oindex' = [oindex EXCEPT ![r] = @ + 1]
    /\ cReqBuffer' = [cReqBuffer EXCEPT ![r] = << >>]

withBatch(r, ids) == [olog[r] EXCEPT ![oindex[r]] = instance("PrePrepared", ids)]

\* Whether onCRequest, for one more instance, sends a batch.
fillsBatch(r) ==
    isPrimaryAtView(r, oview) /\ Len(cReqBuffer[r]) + 1 >= cfg.oBatchSize /\ oindex[r] < cfg.batches

\* onCRequest, which only the primary calls.
onCRequest(r, id) ==
    IF fillsBatch(r) THEN sendCRequest(r)
    ELSE /\ cReqBuffer' = [cReqBuffer EXCEPT ![r] =
                              IF isPrimaryAtView(r, oview) THEN Append(@, id) ELSE @]
         /\ UNCHANGED oindex

\* The O log of r after onCRequest.
ologAfter(r, id) == IF fillsBatch(r) THEN withBatch(r, Append(cReqBuffer[r], id)) ELSE olog[r]

-----------------------------------------------------------------------------
(* Actions *)

Init ==
    /\ cfg \in Scenarios
    /\ requested = {}
    /\ index = [r \in Correct |-> 0]
    /\ log = [r \in Correct |-> [id \in InstanceIDs |-> NoInstance]]
    /\ oindex = [r \in Correct |-> 0]
    /\ olog = [r \in Correct |-> [i \in OIndices |-> NoInstance]]
    /\ cReqBuffer = [r \in Correct |-> << >>]
    /\ nextODeliverIndex = [r \in Correct |-> 0]
    /\ executed = [r \in Correct |-> << >>]
    /\ overwritten = {}

\* onRequest: a replica proposes a command in an instance of its own, over what
\* the log may hold there.
onRequest(r, c) ==
    LET id == <<r, index[r]>>
    IN  /\ r \in cfg.clients /\ c \notin requested /\ index[r] < MaxIndex
        /\ requested' = requested \cup {c}
        /\ index' = [index EXCEPT ![r] = @ + 1]
        /\ log' = [log EXCEPT ![r][id] = instance("PrePrepared", c)]
        /\ olog' = [olog EXCEPT ![r] = ologAfter(r, id)]
        /\ onCRequest(r, id)
        /\ overwritten' = overwritten \cup (IF log[r][id].status = "Absent" THEN {} ELSE {id})
        /\ UNCHANGED <<cfg, nextODeliverIndex, executed>>

\* The ticking timer of initTimers at the primary.
Timeout(r) ==
    /\ isPrimaryAtView(r, oview) /\ cReqBuffer[r] # << >> /\ oindex[r] < cfg.batches
    /\ olog' = [olog EXCEPT ![r] = withBatch(r, cReqBuffer[r])]
    /\ sendCRequest(r)
    /\ UNCHANGED <<cfg, requested, index, log, nextODeliverIndex, executed, overwritten>>

\* onPrePrepare of a proposal that the owner of the instance has sent, or that a
\* faulty replica makes: the sender is compared with nothing.  A replica that has
\* voted in the instance logs its own vote a second time and panics.  (The faulty
\* replicas keep to the instances of the replicas that have clients, a bound.)
onPrePrepare(r, from, id, c) ==
    /\ id[1] \in cfg.clients /\ log[r][id].status = "Absent"
    /\ \/ from = id[1] /\ from \in Correct /\ id[2] < index[from] /\ log[from][id].val = c
       \/ from \in Liars("C")
    /\ \E status \in statuses(log, Liars("C"), r, id, c, from) :
          storeC(r, [log[r] EXCEPT ![id] = instance(status, c)], ologAfter(r, id), status)
    /\ onCRequest(r, id)
    /\ UNCHANGED <<cfg, requested, index, overwritten>>

\* onPrepare, with the Prepare that completes the quorum.
onPrepare(r, id) ==
    /\ log[r][id].status = "PrePrepared"
    /\ \E status \in statuses(log, Liars("C"), r, id, log[r][id].val, r) \ {"PrePrepared"} :
          storeC(r, [log[r] EXCEPT ![id].status = status], olog[r], status)
    /\ UNCHANGED <<cfg, requested, index, oindex, cReqBuffer, overwritten>>

\* onCommit, with the Commit that completes the quorum.
onCommit(r, id) ==
    /\ log[r][id].status = "Prepared"
    /\ Majority(commitVoters(log, Liars("C"), id, log[r][id].val))
    /\ storeC(r, [log[r] EXCEPT ![id].status = "Committed"], olog[r], "Committed")
    /\ UNCHANGED <<cfg, requested, index, oindex, cReqBuffer, overwritten>>

\* onOPrePrepare: the batch comes from the primary of oview.  (A batch that names
\* an instance twice is left out: exec dereferences its command twice and dies.)
onOPrePrepare(r, k, ids) ==
    /\ k < cfg.batches /\ olog[r][k].status = "Absent"
    /\ IF oview \in Correct THEN olog[oview][k] # NoInstance /\ olog[oview][k].val = ids
       ELSE cfg.attack = "O"
    /\ \E status \in statuses(olog, Liars("O"), r, k, ids, oview) :
          store(r, log[r], [olog[r] EXCEPT ![k] = instance(status, ids)], status)
    /\ UNCHANGED <<cfg, requested, index, oindex, cReqBuffer, overwritten>>

\* onOPrepare and onOCommit, like their C counterparts.
onOPrepare(r, k) ==
    /\ olog[r][k].status = "PrePrepared"
    /\ \E status \in statuses(olog, Liars("O"), r, k, olog[r][k].val, r) \ {"PrePrepared"} :
          store(r, log[r], [olog[r] EXCEPT ![k].status = status], status)
    /\ UNCHANGED <<cfg, requested, index, oindex, cReqBuffer, overwritten>>

onOCommit(r, k) ==
    /\ olog[r][k].status = "Prepared"
    /\ Majority(commitVoters(olog, Liars("O"), k, olog[r][k].val))
    /\ store(r, log[r], [olog[r] EXCEPT ![k].status = "Committed"], "Committed")
    /\ UNCHANGED <<cfg, requested, index, oindex, cReqBuffer, overwritten>>

\* The batches that a primary can order: an instance, or two if a batch holds them.
Batches ==
    LET ids == {id \in InstanceIDs : id[1] \in cfg.clients}
    IN  {<<a>> : a \in ids} \cup {p \in ids \X ids : p[1] # p[2] /\ cfg.oBatchSize > 1}

\* The run loop of r: the messages it is sent, and its timer.
Step(r) ==
    \/ \E id \in InstanceIDs :
          \/ \E from \in Replicas, c \in Commands : onPrePrepare(r, from, id, c)
          \/ onPrepare(r, id)
          \/ onCommit(r, id)
    \/ \E k \in OIndices :
          \/ \E ids \in Batches : onOPrePrepare(r, k, ids)
          \/ onOPrepare(r, k)
          \/ onOCommit(r, k)
    \/ Timeout(r)

\* Every owner that has voted in an instance of its own voted for its own proposal.
NoneOverwritten == overwritten = {}

Next ==
    /\ NoneOverwritten
    /\ \E r \in Correct : Step(r) \/ \E c \in Commands : onRequest(r, c)

Spec == Init /\ [][Next]_vars

-----------------------------------------------------------------------------
(* Properties *)

\* No two correct replicas prepare different values for one entry of log L.
Agrees(L, keys) ==
    \A r, s \in Correct : \A k \in keys :
        L[r][k].status \in Certified /\ L[s][k].status \in Certified => L[r][k].val = L[s][k].val

\* Until an owner's onRequest overwrites a vote of its own, two correct replicas that
\* have prepared one instance hold the same command, and two that have prepared one
\* index of the O log the same batch, whichever log the faulty replicas attack and in
\* whosever instance they propose: the two quorum types count alike.
LogsAgree == NoneOverwritten => Agrees(log, InstanceIDs) /\ Agrees(olog, OIndices)

LongestExecuted ==
    executed[CHOOSE r \in Correct : \A s \in Correct : Len(executed[s]) <= Len(executed[r])]

Abstract == INSTANCE TotalOrder WITH Replicas <- Correct, order <- LongestExecuted,
                                     delivered <- executed

\* Until an owner's onRequest overwrites a vote of its own, both logs together implement
\* the total order, also with a faulty replica that sends different commands for one
\* instance, its own or another's, or a faulty primary of the O log that sends different
\* batches for one index: exec waits for the quorums of both.
ImplementsTotalOrder == Abstract!Spec

\* Replicas that follow the code order every instance in one batch, whether it
\* filled a batch or the timer sent it, and execute its command once.
ExecutedOnce ==
    cfg.attack = "None" => \A r \in Correct : \A i, j \in DOMAIN executed[r] :
                               executed[r][i] = executed[r][j] => i = j

\* When faulty replicas are silent and do not lead, and no message or timer is
\* left to act, every requested command has been executed everywhere, whichever of
\* the two logs committed last.  (A step raises a status or empties the buffer, so
\* such a state is reached when messages arrive and the timer ticks.)
AllExecuted ==
    cfg.attack = "None" /\ oview \in Correct /\ (\A r \in Correct : ~ENABLED Step(r))
        => \A r \in Correct : Range(executed[r]) = requested

-----------------------------------------------------------------------------
(* The inductive invariant behind LogsAgree *)

TypeOK ==
    /\ cfg \in Scenario
    /\ requested \subseteq Commands
    /\ index \in [Correct -> Nat] /\ oindex \in [Correct -> Nat]
    /\ log \in [Correct -> [InstanceIDs -> [status : Statuses, val : Commands \cup {Nil}]]]
    /\ olog \in [Correct -> [OIndices -> [status : Statuses, val : Seq(InstanceIDs) \cup {Nil}]]]
    /\ cReqBuffer \in [Correct -> Seq(InstanceIDs)]
    /\ overwritten \subseteq InstanceIDs

\* A prepared entry has a quorum of votes, and an entry that is absent no value.
Backed(L, liars, keys) ==
    \A r \in Correct : \A k \in keys :
        /\ L[r][k].status \in Certified => Majority(prepareVoters(L, liars, k, L[r][k].val))
        /\ L[r][k].status = "Absent" <=> L[r][k].val = Nil

\* sendCRequest overwrites nothing that has been voted for, and onRequest neither
\* unless a faulty replica proposes in somebody else's instance.
Fresh ==
    /\ cfg.attack # "C" =>
          \A r \in Correct : \A id \in InstanceIDs :
              id[1] = r /\ id[2] >= index[r] => log[r][id].status = "Absent"
    /\ \A k \in OIndices : oview \in Correct /\ k >= oindex[oview] => olog[oview][k].status = "Absent"

LogsInv ==
    /\ TypeOK /\ Fresh
    /\ Backed(log, Liars("C"), InstanceIDs)
    /\ Backed(olog, Liars("O"), OIndices)

\* Until an owner overwrites a vote of its own, every prepared entry of either log
\* has the votes of more than 2f replicas, and only a proposer of the C log that
\* attacks makes an owner do so.
DqInv == (NoneOverwritten => LogsInv) /\ (cfg.attack # "C" => NoneOverwritten)

-----------------------------------------------------------------------------
(* The inductive invariants behind ImplementsTotalOrder and ExecutedOnce *)

\* A replica with the logs C and O and n executed batches has executed e: the commands
\* of the instances that these batches name, each of them once.
ExecutedFrom(C, O, n, e) ==
    LET ids == named(O, 0, n)
    IN  /\ \A k \in 0 .. n - 1 : O[k].status = "Executed"
        /\ \A i \in DOMAIN ids : C[ids[i]].status = "Executed"
        /\ \A i, j \in DOMAIN ids : ids[i] = ids[j] => i = j
        /\ e = [i \in DOMAIN ids |-> C[ids[i]].val]

ExecInv ==
    /\ nextODeliverIndex \in [Correct -> 0 .. MaxOIndex]
    /\ executed \in [Correct -> Seq(Commands)]
    /\ \A r \in Correct : ExecutedFrom(log[r], olog[r], nextODeliverIndex[r], executed[r])

\* When no proposer equivocates, a command is proposed in one instance.
OneInstance ==
    cfg.attack # "C" =>
        \A r, s \in Correct : \A a, b \in InstanceIDs :
            log[r][a].val # Nil =>
                /\ log[r][a].val \in requested
                /\ log[r][a].val = log[s][b].val => a = b

LogsOrderInv == LogsInv /\ ExecInv /\ OneInstance

OrderInv == DqInv /\ (NoneOverwritten => LogsOrderInv)
=============================================================================
