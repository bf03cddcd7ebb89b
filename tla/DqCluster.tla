----------------------------- MODULE DqCluster -----------------------------
(***************************************************************************)
(* What the protocols with two logs have in common (sbftx, destiny,        *)
(* dqsbftslow, hybsterx): every replica proposes the commands of its       *)
(* clients as instances of its own, and the primary of the ordering log    *)
(* proposes batches of instance ids.  A batch is executed when it and all  *)
(* instances that it lists are committed.                                  *)
(*                                                                         *)
(* Both logs take their instances through the same steps, so log holds     *)
(* both kinds: the id of an instance names its owner, that of a batch has  *)
(* the owner Nil.  The network, the dispatchers, votes and hashes are      *)
(* treated as in module Cluster.                                           *)
(***************************************************************************)
EXTENDS Integers, Sequences, SequencesExt, FiniteSets, FiniteSetsExt, Bags, TLC

CONSTANTS
    Replicas, Primary,  \* the replicas, and the primary of oview
    Commands, Nil,      \* commands of clients, and no value yet
    Scenarios,          \* the clusters to look at
    MaxIndex            \* bound on the batches

\* A cluster with MaxFailures f, MaxFastFailures ff and DqOBatchSize oBatchSize.  So many
\* commands come from the clients of some replicas; the replicas in down never start, and
\* so many others may crash (those included).  The ids of the replicas are in the order of
\* peers, which only Prime looks at.  Of Dispel so many rounds are looked at, from the start
\* or from where the broadcast is done at some replicas and the consensus begins; the
\* broadcast may complete after that at the replicas in late.
Scenario == [protocol : STRING, members : SUBSET Replicas, peers : Seq(Replicas), f : Nat, ff : Nat,
             oBatchSize : Nat \ {0}, clients : SUBSET Replicas, commands : Nat, down : SUBSET Replicas, crashes : Nat,
             rounds : Nat, done : SUBSET Replicas, late : SUBSET Replicas]

ASSUME DqClusterAssumption ==
    /\ Primary \in Replicas /\ Nil \notin Commands \cup Replicas
    /\ MaxIndex \in Nat /\ Scenarios \subseteq Scenario
    /\ \A s \in Scenarios : /\ {Primary} \cup s.clients \subseteq s.members \ s.down
                            /\ s.commands <= MaxIndex

VARIABLES
    cfg,        \* the scenario, which nothing changes
    requested,  \* the commands that clients have sent
    index,      \* [Replicas -> index of its next instance]
    oindex,     \* the primary's next index of a batch
    cReqBuffer, \* the ids that the primary has not put into a batch yet
    log,        \* [Replicas -> [id -> instance or batch]]
    chan,       \* [Replicas -> [Replicas -> messages on their way from the one to the other]]
    jobs,       \* [Replicas -> bag of callbacks that have not run yet]
    oexecIdx,   \* [Replicas -> index of the next batch to execute]
    executed,   \* [Replicas -> commands handed to the applier]
    crashed,    \* replicas that have crashed
    panicked    \* replicas that have stopped with logger.Fatalf or Panicf

vars == <<cfg, requested, index, oindex, cReqBuffer, log, chan, jobs, oexecIdx, executed,
          crashed, panicked>>

Alive == cfg.members \ (crashed \cup panicked)

-----------------------------------------------------------------------------
(* Instances *)

instanceID(r, i) == [owner |-> r, index |-> i]
batchID(i) == [owner |-> Nil, index |-> i]
isBatch(id) == id.owner = Nil
proposer(id) == IF isBatch(id) THEN Primary ELSE id.owner

Ids == {instanceID(r, i) : r \in cfg.clients, i \in 0 .. cfg.commands - 1}
       \cup {batchID(i) : i \in 0 .. cfg.commands - 1}

has(r, id) == id \in DOMAIN log[r]
put(L, id, inst) == (id :> inst) @@ L

\* A message contradicts the instance.
differs(r, id, field, val) == has(r, id) /\ log[r][id][field] \notin {Nil, val}

\* A batch and all that it lists can be executed.
ready(L, id) ==
    /\ id \in DOMAIN L /\ L[id].status = "Committed"
    /\ \A c \in Range(L[id].command) :
          c \in DOMAIN L /\ L[c].status = "Committed" /\ L[c].command # Nil

\* What exec does with some batches, in this order.
execute(r, L, batches) ==
    LET ids == FlattenSeq([k \in DOMAIN batches |-> L[batches[k]].command])
    IN  /\ log' = [log EXCEPT ![r] = [id \in DOMAIN L |->
                      IF id \in Range(batches) THEN [L[id] EXCEPT !.status = "Executed"]
                      ELSE IF id \in Range(ids) THEN [L[id] EXCEPT !.status = "Executed", !.command = Nil]
                      ELSE L[id]]]
        /\ executed' = [executed EXCEPT ![r] = @ \o [k \in DOMAIN ids |-> L[ids[k]].command]]
        /\ oexecIdx' = [oexecIdx EXCEPT ![r] = @ + Len(batches)]

\* Mutant of exec: it takes every batch that can be executed, over gaps.
execOverGaps(r, L) ==
    LET is == SetToSortSeq({i \in 0 .. MaxIndex - 1 : ready(L, batchID(i))}, <)
    IN  execute(r, L, [k \in DOMAIN is |-> batchID(is[k])])

\* Mutant of exec: it goes by the status of the batches and not by oexecIdx.
execByStatus(r, L) ==
    LET done(i) == batchID(i) \in DOMAIN L /\ L[batchID(i)].status = "Executed"
        first == Min({n \in 0 .. MaxIndex : n = MaxIndex \/ ~done(n)})
        next == Min({n \in first .. MaxIndex : n = MaxIndex \/ ~ready(L, batchID(n))})
    IN  execute(r, L, [k \in 1 .. next - first |-> batchID(first + k - 1)])

\* exec, for a replica whose log has become L; no instance is in two batches.
exec(r, L) ==
    LET next == Min({n \in oexecIdx[r] .. MaxIndex : n = MaxIndex \/ ~ready(L, batchID(n))})
    IN  execute(r, L, [k \in 1 .. next - oexecIdx[r] |-> batchID(oexecIdx[r] + k - 1)])

noExec(r, L) == log' = [log EXCEPT ![r] = L] /\ UNCHANGED <<oexecIdx, executed>>

-----------------------------------------------------------------------------
(* The network and the dispatchers *)

broadcast(ch, from, to, m) ==
    [ch EXCEPT ![from] = [q \in Replicas |-> IF q \in to \cap Alive THEN Append(@[q], m) ELSE @[q]]]

\* The message from q that r may read next, if there is one.
received(r, q, type) ==
    {m \in {Head(s) : s \in {chan[q][r]} \ {<< >>}} : r \in Alive /\ m.type = type}
popped(r, q) == [chan EXCEPT ![q][r] = Tail(@)]

withJob(r, j) == [jobs EXCEPT ![r] = @ (+) SetToBag({j})]
withoutJob(r, j) == [jobs EXCEPT ![r] = @ (-) SetToBag({j})]
pending(r, type) == {j \in BagToSet(jobs[r]) : r \in Alive /\ j.type = type}

stop(r) ==
    /\ chan' = [q \in Replicas |-> [chan[q] EXCEPT ![r] = << >>]]
    /\ jobs' = [jobs EXCEPT ![r] = EmptyBag]
    /\ UNCHANGED <<cfg, requested, index, oindex, cReqBuffer, log, oexecIdx, executed>>

Panic(r) == panicked' = panicked \cup {r} /\ stop(r) /\ UNCHANGED crashed

\* A replica without clients crashes; votes that it has sent may still arrive.
Crash(r) ==
    /\ r \in Alive \ (cfg.clients \cup {Primary}) /\ Cardinality(crashed) < cfg.crashes
    /\ crashed' = crashed \cup {r} /\ stop(r) /\ UNCHANGED panicked

-----------------------------------------------------------------------------
(* The primary's batches *)

\* onCRequest, at a replica that meets the proposal of instance id: its cReqBuffer, and
\* whether sendCRequest makes a batch of it.
orders(r, id) == r = Primary /\ ~isBatch(id)
buffered(r, id) == IF orders(r, id) THEN Append(cReqBuffer, id) ELSE cReqBuffer
flushes(r, id) == orders(r, id) /\ Len(buffered(r, id)) >= cfg.oBatchSize

bufferAfter(r, id) ==
    /\ cReqBuffer' = IF flushes(r, id) THEN << >> ELSE buffered(r, id)
    /\ oindex' = IF flushes(r, id) THEN oindex + 1 ELSE oindex

-----------------------------------------------------------------------------
Init ==
    /\ cfg \in Scenarios
    /\ requested = {}
    /\ index = [r \in Replicas |-> 0]
    /\ oindex = 0
    /\ cReqBuffer = << >>
    /\ log = [r \in Replicas |-> << >>]
    /\ chan = [r \in Replicas |-> [q \in Replicas |-> << >>]]
    /\ jobs = [r \in Replicas |-> EmptyBag]
    /\ oexecIdx = [r \in Replicas |-> 0]
    /\ executed = [r \in Replicas |-> << >>]
    /\ crashed = cfg.down
    /\ panicked = {}

newCommand(r, c) ==
    /\ r \in Alive \cap cfg.clients /\ c \in Commands \ requested
    /\ Cardinality(requested) < cfg.commands

-----------------------------------------------------------------------------
(* Properties *)

\* Prime's primary reads a row of its matrix that has changed since it was proposed and
\* may execute a command earlier than the others do.
Comparable == IF cfg.protocol = "prime" THEN Replicas \ {Primary} ELSE Replicas

LongestExecuted ==
    executed[CHOOSE r \in Comparable : \A s \in Comparable : Len(executed[s]) <= Len(executed[r])]

Abstract == INSTANCE TotalOrder WITH
    order <- LongestExecuted,
    delivered <- [r \in Replicas |-> IF r \in Comparable THEN executed[r] ELSE << >>]

\* The commands of all proposers come out as one total order at every replica (in Prime,
\* at every replica but the primary), in whichever order their instances and the batches
\* that list them are committed where.
ImplementsTotalOrder == Abstract!Spec

\* No replica executes a command twice, not even when a late proposal of a replica to
\* itself takes an executed instance or batch back to its first status.
ExecutedOnce ==
    \A r \in Replicas : \A i, j \in DOMAIN executed[r] : executed[r][i] = executed[r][j] => i = j

\* No handler stops a replica: no message contradicts an instance or a batch.
NoPanic == panicked = {}

\* Nothing is left to do for a replica that runs.
Quiet == \A r \in Alive : jobs[r] = EmptyBag /\ \A q \in Replicas : chan[q][r] = << >>
=============================================================================
