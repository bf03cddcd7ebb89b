------------------------------ MODULE Cluster ------------------------------
(***************************************************************************)
(* What the protocols with one log of instances have in common: replicas   *)
(* that run a protocol on top of peer.Peer and transport.GRPCTransport.    *)
(* The protocol modules extend this one with their handlers.               *)
(*                                                                         *)
(* What the leader sends to a replica stays in order (one stream per       *)
(* pair), and so does what it sends to itself, which takes the same way    *)
(* through the transport.  Work given to a dispatcher comes back in any    *)
(* order: its callback is a job.  A vote changes nothing before it         *)
(* completes a quorum, so votes are not stepped one by one: a quorum is    *)
(* any set of votes that have been sent when the handler runs that tests   *)
(* it, and what a replica has sent is read off its instance.  A hash       *)
(* stands for the command it is the hash of.                               *)
(***************************************************************************)
EXTENDS Integers, Sequences, FiniteSets, FiniteSetsExt, Functions

CONSTANTS
    Replicas, Leader,   \* the replicas, and the leader of the only view
    Commands, Nil,      \* commands of clients, and no value yet
    Scenarios,          \* the clusters to look at
    MaxIndex            \* bound on the instances of the log

Protocols == {"sbft", "sbftslow", "linhybster", "minbft", "hybster", "duobft", "mirbft"}

\* A cluster with MaxFailures f and MaxFastFailures c, whose replicas have their ids in
\* the order of peers.  The replicas in down never start, so many followers may crash
\* (those included), and the faulty ones deviate from the code.  So many commands come
\* from the clients of the replicas in clients; those in meta carry a Command.Meta, and
\* the results are followed back to the clients or not.
Scenario == [protocol : Protocols, members : SUBSET Replicas, peers : Seq(Replicas), f : Nat, c : Nat,
             down : SUBSET Replicas, crashes : Nat, faulty : SUBSET Replicas, commands : Nat,
             meta : SUBSET Commands, clients : SUBSET Replicas, answers : BOOLEAN]

\* The number of replicas that a protocol needs for its failures.
size(s) ==
    CASE s.protocol \in {"sbft", "sbftslow"} -> 3 * s.f + 2 * s.c + 1
      [] s.protocol \in {"duobft", "mirbft"} -> 3 * s.f + 1
      [] OTHER -> 2 * s.f + 1

ASSUME ClusterAssumption ==
    /\ Leader \in Replicas /\ Nil \notin Commands
    /\ MaxIndex \in Nat /\ Scenarios \subseteq Scenario
    /\ IsFiniteSet(Replicas)
    /\ \A s \in Scenarios :
          /\ Leader \in s.members /\ s.faulty \cup s.clients \subseteq s.members
          /\ Cardinality(s.faulty) <= s.f /\ Cardinality(s.members) = size(s)
          /\ s.protocol = "mirbft" => s.peers \in Bijection(1 .. size(s), s.members)

VARIABLES
    cfg,        \* the scenario, which nothing changes
    requested,  \* the commands that clients have sent
    index,      \* [Replicas -> the index of its next proposal]
    log,        \* [Replicas -> [index -> instance]], a partial function
    chan,       \* [Replicas -> messages on their way to it from the leader]
    jobs,       \* [Replicas -> bag of callbacks that have not run yet]
    execIdx,    \* [Replicas -> index of the next instance to execute]
    executed,   \* [Replicas -> commands handed to the applier]
    results,    \* [Commands -> replicas whose result the answering replica has]
    answered,   \* [Commands -> number of answers handed to the client's peer]
    crashed,    \* replicas that have crashed
    panicked    \* replicas that have stopped with logger.Fatalf or Panicf

vars == <<cfg, requested, index, log, chan, jobs, execIdx, executed, results, answered,
          crashed, panicked>>

Correct == cfg.members \ cfg.faulty
Alive == Correct \ (crashed \cup panicked)

-----------------------------------------------------------------------------
(* The network and the dispatchers *)

\* The leader sends m; messages to replicas that do not run are never read.
sendTo(to, m) == [q \in Replicas |-> IF q \in to \cap Alive THEN Append(chan[q], m) ELSE chan[q]]

\* The message that r may read next, if there is one.
received(r, type) == {m \in {Head(s) : s \in {chan[r]} \ {<< >>}} : r \in Alive /\ m.type = type}
popped(r) == [chan EXCEPT ![r] = Tail(@)]

\* The bag of the callbacks of a replica says how many of each wait.
noJobs == [j \in {} |-> 0]
withOne(B, j) == [k \in DOMAIN B \cup {j} |-> (IF k \in DOMAIN B THEN B[k] ELSE 0) + (IF k = j THEN 1 ELSE 0)]
withoutOne(B, j) == [k \in {k \in DOMAIN B : k # j \/ B[k] > 1} |-> B[k] - (IF k = j THEN 1 ELSE 0)]

withJob(r, j) == [jobs EXCEPT ![r] = withOne(@, j)]
withoutJob(r, j) == [jobs EXCEPT ![r] = withoutOne(@, j)]

\* The callbacks of r that may run next.
pending(r, type) == {j \in DOMAIN jobs[r] : r \in Alive /\ j.type = type}

\* The end of a replica, and with it of what it was about to do or to be told.
stop(r) ==
    /\ chan' = [chan EXCEPT ![r] = << >>]
    /\ jobs' = [jobs EXCEPT ![r] = noJobs]
    /\ UNCHANGED <<cfg, requested, index, log, execIdx, executed, results, answered>>

Panic(r) == panicked' = panicked \cup {r} /\ stop(r) /\ UNCHANGED crashed

\* A faulty follower ends the leader: it repeats a share or a result, or sends a share
\* that contradicts the instance or does not verify, and quorum.log, rquorum.log,
\* updateCommandHash or AggregateSigAndVerify stop the process.  (One that binds an
\* instance to another hash stops it with the next message about the instance.)
FaultyVote == Leader \in Alive /\ cfg.faulty # {} /\ Panic(Leader)

\* A follower crashes; votes that it has sent may still arrive.
Crash(r) ==
    /\ r \in Alive \ {Leader} /\ Cardinality(crashed) < cfg.crashes
    /\ crashed' = crashed \cup {r} /\ stop(r) /\ UNCHANGED panicked

-----------------------------------------------------------------------------
(* Instances *)

put(L, i, inst) == [j \in DOMAIN L \cup {i} |-> IF j = i THEN inst ELSE L[j]]

\* The command or hash of a message contradicts that of the instance.
differs(r, i, field, val) == i \in DOMAIN log[r] /\ log[r][i][field] \notin {Nil, val}

\* The end of a loop that starts at i and goes on while it finds instances that pass.
loopEnd(i, passing) == Min({n \in i .. MaxIndex : n = MaxIndex \/ n \notin passing})

-----------------------------------------------------------------------------
Init ==
    /\ cfg \in Scenarios
    /\ requested = {}
    /\ index = [r \in Replicas |-> 0]
    /\ log = [r \in Replicas |-> << >>]
    /\ chan = [r \in Replicas |-> << >>]
    /\ jobs = [r \in Replicas |-> noJobs]
    /\ execIdx = [r \in Replicas |-> 0]
    /\ executed = [r \in Replicas |-> << >>]
    /\ results = [c \in Commands |-> {}]
    /\ answered = [c \in Commands |-> 0]
    /\ crashed = cfg.down
    /\ panicked = {}

\* A client sends a new command, which nothing tells apart from another.
newCommand(c) == c \in Commands \ requested /\ Cardinality(requested) < cfg.commands

\* A replica's result for c is on its way; a faulty one reports what it likes.  One that
\* comes twice is a FaultyVote.
resultSent(r, c) ==
    /\ cfg.answers /\ c \in requested /\ r \notin results[c]
    /\ r \in cfg.faulty \/ (r \in Alive /\ c \in Range(executed[r]))

\* Nothing is left to do for a replica that runs.
Quiet ==
    \A r \in Alive : jobs[r] = noJobs /\ chan[r] = << >>
=============================================================================
