# A TLA+ development for go-consensus

go-consensus runs one of eighteen consensus protocols behind a common peer: the deployment picks a protocol, and
`peer/` hosts it. This directory models the runtime around a protocol, with the transport, and all eighteen protocols
(their normal case; what each model leaves out is said below), checks them with TLC on small instances, and proves with
TLAPS that PBFT, DQPBFT and the seven protocols with one log implement a total order, what the peer, the worker pools, the request
buffer, the transport and RCC's round executor promise, and that leaders of a chain propose once per height.

Contents: [the system](#the-system), [modules and code](#modules-and-code), [runs](#runs), [bounds](#bounds),
[fairness](#fairness), [proofs](#proofs), [findings](#findings), [what is not modelled](#what-is-not-modelled),
[plan](#plan).

## The system

A replica is one process. Its parts, the state they keep and what they do:

| Part | State | Operations | Talks to |
|---|---|---|---|
| protocol (`protocols/*`) | a log of instances or blocks, vote certificates, an execution cursor, timers | `Request`, `Step`, `Tick`, `AsyncCallback`, `MakeReady`, `ClearMsgs`, `ClearExecutedCommands` | the run loop, which calls it under the peer's lock; the worker pools, to which it hands signing and verifying jobs |
| run loop, ticker (`peer/peer.go`) | the lock `mu`, the wake-up token `sig`, the message channel `msgs`, `done` | `HandleCommand`, `HandleMessage`, `Run`, `ticker`, `flushCmds`, `flushMsgs`, `Stop` | client calls, the transport's stream goroutines, the applier |
| applier (`peer/applier.go`) | the channels `toApply` and `toSend` and the two goroutines behind them | `RunOnce`, `maybeApplyAsync`, `trySendMessages`, `Start`, `Stop` | the protocol (through `Ready`), the tracker, the transport, and the peer itself for messages to itself |
| request buffer (`peer/req_buf.go`) | slots, an atomic counter, a read-write lock, a condition variable | `add`, `flush` | client calls add, the run loop flushes |
| command tracker (`pkg/command/tracker.go`) | waiting calls and remembered results by command | `Register`, `Finish`, `FinishAll` | run loop, applier, Stop |
| worker pools (`pkg/worker`, `pkg/bucketworker`) | an unbounded job list, worker channels, the callback channel | `Exec`, `dispatch`, `start` | the protocol submits jobs; the run loop runs their callbacks in `AsyncCallback` |
| transport (`transport/grpc.go`) | one channel and one dialing goroutine per destination | `Send`, `sendAsync`, `sender`, `Close` | the sending goroutine of the applier, other replicas |
| timers (`peer/timer.go`) | a countdown | `Tick`, `Reset`, `Stop` | protocols |
| enclaves, certifiers (`enclaves`, `utils`) | keys and trusted counters | sign, verify, create and check counter certificates | Hybster, MinBFT, Destiny, DuoBFT |
| client, master, experiment runner (`cmd`, `erunner`) | configuration | deployment and load | replicas |

A command of a client enters with `HandleCommand`, waits in the request buffer until the run loop hands it to the
protocol, becomes a message to the other replicas (signed by a worker, queued in `toSend`, sent by the transport),
is ordered by the protocols of all replicas, comes back out of `MakeReady`, goes through `toApply` to the applier,
and is answered through the tracker.

What is hard in this code:

* concurrency in one process: five kinds of goroutines share one lock, six bounded channels, an atomic counter and
  a condition variable, and every one of them can block on a full queue or race with `Stop`;
* handlers split by verification: a protocol checks a message, hands its signatures to a worker and goes on in a
  callback, while other handlers run in between;
* messages in any order: workers finish out of order, so votes overtake the proposals they are for, and even the
  messages of one replica overtake each other;
* Byzantine replicas: an equivocating proposer must not split the correct replicas, and the quorum tests are the
  only thing that stops it;
* two logs in the DQ protocols, two commit rules in DuoBFT, two chains in its chained form, one log per leader in
  MirBFT and RCC: execution waits for several things, and whichever comes last must start it;
* no recovery: a missing leader or proposer, a conflicting vote (which panics) and a stalled destination are mostly
  not handled, and the models say where this shows.

What makes the parts correct: all correct replicas execute one sequence of commands; nothing is executed twice;
what is committed survives; the runtime hands messages and commands on without loss, repetition or change of order;
every client is answered; nobody waits for somebody who waits for him; `Stop` returns. `PROJECT.json` lists the
hazards line by line, with the properties that would catch each of them.

## Modules and code

| Module | Models | One action is |
|---|---|---|
| `TotalOrder` | the promise of every protocol: `OrderedCommands` over all calls of `MakeReady` is one sequence, delivered by some replicas faster than by others | delivery of some commands at a replica |
| `AsyncJobs` | the promise of a worker pool: each callback runs once, those of one class in the order of submission | a submission, a callback |
| `Pbft` | `protocols/pbft` with arbitrary faulty replicas, up to the first NewView of one of them that is applied | one call of `Request` or `Step` |
| `DqPbft` | both logs of `protocols/dqpbft`, batching and execution, with faulty replicas | one call of `Request` or `Step` that changes an instance, or a tick of the batch timer that sends something |
| `Cluster` | what the protocols with one log share: members, streams between them, jobs of the worker pools, crashes, execution, answers | |
| `Sbft`, `SbftSlow`, `LinHybster`, `MinBft`, `Hybster`, `DuoBft`, `MirBft` | the protocols of these names, on top of `Cluster` | one call of `Request` or `Step` that changes an instance, one callback of a worker, a crash, a message of a faulty leader |
| `ClusterProtocols` | these protocols side by side and what all of them promise: a behaviour is one of the protocol that its scenario names | |
| `DqCluster` | what the protocols with instances and an ordering log share: both logs, the batch buffer, execution from both | |
| `LinearDq` | what SBFTx and Destiny share: shares, an aggregate, a certificate, in both logs | as above |
| `SbftX`, `Destiny`, `DqSbftSlow`, `HybsterX` | the protocols of these names | as above, and a tick of the batch timer |
| `Prime` | `protocols/prime`: pre-ordering, summaries, the matrix that the primary orders, execution of what a matrix makes eligible | one call of `Request` or `Step`, a tick of one of the two timers |
| `Dispel` | one slot of an epoch of `protocols/dispel`: reliable broadcast and binary consensus | one call of `Request` or `Step` that changes the slot, the coordinator's timeout |
| `ChainHotstuff` | `protocols/chainhotstuff`, its verification by workers included | one call of `Request` or `Step`, or one callback |
| `ChainDuoBft` | `protocols/multichainduobft/chainduobft`: one sequence of blocks with a fast and a slow chain in it | a request, a verified block, a signed and counted vote, a callback of the leader's |
| `Chains` | a behaviour is one of `ChainHotstuff` or of `ChainDuoBft` | |
| `Rcc` | the round executor of `protocols/rcc` above replicators that keep `TotalOrder`'s promise | a command ordered by a replicator, a turn of the run loop |
| `Dispatcher`, `BucketDispatcher` | `pkg/worker`, `pkg/bucketworker` | one channel operation of the dispatcher or a worker, one callback |
| `ReqBuf` | `peer/req_buf.go` | a step between two lock, atomic or condition-variable operations |
| `Transport` | `transport/grpc.go` | a step of the sending goroutine, of a sender or of a receiver between two points where it can block; a stream that breaks; `Close` |
| `Parts` | a behaviour is one of a pool, of the buffer, of the transport or of the round executor | |
| `Peer` | `peer/peer.go`, `peer/applier.go`, `pkg/command/tracker.go` around a small protocol | a step of a goroutine between two points where it can block or lose the lock |
| `PbftProofs`, `DqPbftProofs`, `PeerProofs`, `PartsProofs`, `ChainsProofs` | the theorems about the modules of these names | |
| `LogLemmas` | lemmas about sequences and induction over numbers | |
| `ClusterLemmas`, `ClusterProofs` | one invariant for the protocols with one log and the lemmas about it; the theorems about `ClusterProtocols` | |
| `MC...` | the instances that TLC checks | |

`Pbft` keeps the log of each replica as `log[r][i]` with the status, view, command, hash and the two certificates of
`instance.go`; `msgs` holds everything a correct replica has broadcast, and `stepped` what each replica has taken in.
A message of a faulty replica is any message with its name on it, those of a view change included: a NewView is applied on its
sender's word (`onNewView` asks that the sender is the primary of the view it names, and verifies the instances against the ViewChange messages at hand, of which
there need be none) and overwrites the view and the instances it names, whatever their status. `newViews` remembers who has applied one. `Step` is one handler from its guards to the
execution loop it may end in; a conflicting vote or command is the panic of the code, which ends the replica.

`DqPbft` has smaller states: a vote changes nothing before it completes a quorum, so a certificate is any set of
votes that have been sent when the handler that tests it runs, and what a correct replica has sent is read off the
status of its instance. Both logs then need one status and one value per instance. `onPrePrepare` of the code compares the sender of a proposal with nothing, so a faulty
replica proposes in every instance; a correct owner that later comes to an instance it has voted in overwrites its vote (`onRequest` does not look), `overwritten` remembers that, and the
model ends there, since what a replica has sent can no longer be read off its log. The cluster (who leads, who
proposes, the batch size, which log the faulty replicas attack) is chosen in the initial state, so one run covers
several.

`Cluster` and `DqCluster` carry this on. What a proposer sends travels in one FIFO per pair of replicas, its own messages to
itself included, because the code sends those through the transport, too; work for a dispatcher is a job, and jobs come
back in any order. Votes are read off the instances of their senders. A scenario (`cfg`, chosen in the initial state)
says which protocol runs, with which members and fault bounds, who crashes or lies, and how many commands come; the
protocol modules hold the handlers only. `ClusterProtocols` and `MCDqCluster` instantiate them and state the same properties of
all.

Trusted counters (Hybster, MinBFT, Destiny, linear Hybster) appear as what they guarantee: a replica's messages arrive in
the order of their counters, and there is one message per counter value.

`Prime` adds the vectors of pre-ordered requests to `DqCluster`. A row of the primary's matrix is an alias of its live
summary in the code: `resolve` reads it when the code does.

`Dispel` looks at one slot, that is one proposer of one epoch, with all replicas: an echo, a ready, an estimate or an aux
value is read off the state of its sender, the counters of the code (which do not look at the sender) are sets of senders,
since no replica sends one twice. A crashed replica is one that takes no further step. Proposal 0 for a slot that is not
delivered when the consensus starts, the late delivery, and the amplification of estimates are all there; whole epochs and
the second proposal of a command whose slot was decided 0 are not.

`ChainDuoBft` has a leader that follows the code, so a height of either chain names one block. The fast and the slow part of
a block are verified by dispatchers of their own: at a follower one chain runs ahead of the other. With in-order
verification the proposals that wait for a missing block do not arise, and the time a vote is under way can be spent before
it is signed, so signing and counting are one step.

`Rcc` takes the replicators as promised by `TotalOrder` (any of the other protocols shows that): each hands every replica a
prefix of one sequence. The same executor is in `multichainduobft.go`.

`ChainHotstuff` keeps one table of blocks; the hash of a block is its place in it, and a certificate is the block it
is for. `rep[r]` holds the fields of the struct and the list of jobs that the workers have in hand: the first
`Workers` of them may finish in any order.

`Peer` runs a protocol of its own that emits a message for a request and orders the command of a message it steps.
Messages and results are the commands they are about. Steps are cut where a goroutine can block (a full channel, the
lock, a wait) or where the code gives up the lock (`RunOnce` does, around `toApply`).

Cryptography is abstract everywhere: a message names its true sender, and a hash is injective.

## Runs

| Run | Question and answer |
|---|---|
| `pbft_faulty` | Can one of four replicas, the primary, that sends any PrePrepare, Prepare and Commit to anybody at any time, split the other three? Not before one of them applies a NewView from it (it is the primary of views 0 and 4, and the code takes its word for what view 4 starts with): until then `Agreement` holds; a committed instance stays prepared at enough correct replicas for a later view to see it (`CommitHasQuorum`); and `Inv`, the invariant of the proofs, holds. Afterwards none of them does, see the findings. |
| `pbft_crash` | With one replica crashed, two indices and any order of delivery, does every replica execute a prefix of one sequence (`PrefixOrder`), does PBFT implement `TotalOrder`, is every panic unreachable (`NoPanic`), and is everything proposed executed everywhere (`AllExecuted`)? Yes. |
| `dqpbft` | Does execution from two logs give one order when a proposer or the ordering primary equivocates, or a faulty replica proposes in an instance of somebody else (`LogsAgree`, `ImplementsTotalOrder`)? It does until a correct owner overwrites an entry it has voted for. Without an attack, is an instance ordered once although a full batch and the timer both send (`ExecutedOnce`), and is nothing left behind when one log commits before the other (`AllExecuted`)? Yes. `DqInv` is the invariant of the proofs. |
| `hotstuff` | With one verifying worker: does `bExec` stay the last committed block (`LastCommitted`), does a leader propose once per height although requests and certificates both trigger it (`OnePerHeight`), and does no proposal or vote wait for ever for a block (`NothingStuck`)? And in the chain of Multichain DuoBFT: is each height of both chains proposed once, although only two flags guard it (`OnePerHeight`), and do the dummy blocks suffice to execute every command at the leader, and those of the fast chain everywhere (`ChainExecuted`)? Yes. |
| `hotstuff_workers` | And with two workers? `LastCommitted` fails, see the findings. |
| `cluster` | Seven protocols with one log, with crashes, or with a leader or follower that lies where the protocol is meant to stand it. Is there one total order (`ImplementsTotalOrder`), with the votes of a quorum behind each execution (`Certified`)? Is nothing executed twice, though a late proposal may set an instance back (`ExecutedOnce`), no handler stopped by a repeated or contradicting vote when nobody lies, and nothing left behind whichever callback comes last while the leader runs (`AllExecuted`), and no client answered without a correct replica that executed its command (`AnswerBacked`)? Yes. With a lying follower a correct leader may stop at any moment: one repeated or contradicting share or result ends its process (`FaultyVote`), and the safety properties hold all the same. |
| `dq_cluster` | Five protocols with instances and an ordering log, with crashes: one order (`ImplementsTotalOrder`; in Prime for all replicas but the primary, see below), `ExecutedOnce` and `AllExecuted` as above. And Dispel: do all replicas that decide a slot in the first two rounds, or in any round when `2F + 1` run, decide alike (`DecisionsAgree`), and 1 only when the proposer's command was broadcast (`DecidedIsBroadcast`)? Yes. |
| `parts` | Does a pool of one or two workers run every callback once, in order per class (`ImplementsAsyncJobs`), without locking up when every channel is full and callbacks submit jobs (`AllRun`)? Does the request buffer hand every command over once (`BufferOnce`), and does nobody sleep in it for ever (`BufferDrains`)? Is a connection of the transport FIFO, with nothing handled twice (`Fifo`), does `Send` return unless a full channel has no reader (`SendReturns`), and does everything arrive when nothing breaks (`Delivered`)? Do RCC's replicas agree on the rounds (`RoundsAgree`), and is every complete round executed (`RoundsExecuted`)? Yes. |
| `peer_order` | With all queues of length 1 and repeated client calls: are ordered commands and messages handed on as they are (`ApplyOrder`, `NoMessageLost`), and does an answer mean that the command was applied (`AnsweredAfterApplied`)? Yes. Deadlock is checked in this run. |
| `peer_stop` | Is every client answered unless the peer is stopped, also when its command is applied before its call is registered (`EveryCallAnswered`), and does `Stop` return in every interleaving (`StopReturns`), as long as the protocol sends nothing to its own peer? Yes. |
| `peer_stop_panic`, `peer_stop_hang` | Is `Stop` free of panics, and does it return when the protocol does send to its own peer? No, see the findings. |

Every property of a passing run has a mutant in `PROJECT.json`: a definition changed as a plausible bug in the code
would change it, under which TLC finds the property violated.

## Bounds

* Replicas: `N = 4`, `F = 1`, the smallest cluster in which a quorum can lose a faulty replica.
* `MaxIndex` (`Pbft`): 1 index with a Byzantine primary, where indices do not influence each other, and 2 indices with
  two commands in `pbft_crash`, enough for a gap that holds execution back. `MaxView = 4` in `pbft_faulty` makes the faulty replica 0 the primary of views 0 and 4, so that it can announce one. What lies
  behind a NewView is not explored (`CONSTRAINT NoNewView`): all three properties are about the states before. With crashes only, nobody leaves view 0.
* `DqPbft`: `MaxIndex = 1` instance per proposer, at most `MaxOIndex = 2` batches. With two proposers and batches of
  two, an instance fills a batch, is sent alone by the timer, or waits; two commands and batches of one or two
  instances suffice to equivocate in either log, in an instance of the faulty replica's own or of somebody else. Commands are symmetric. The batch bound is never the reason why something is not sent: there
  are as many batches as instances, except under attack.
* `MaxHeight = 4` (`ChainHotstuff`): the first height at which the three-chain rule commits a block, with each of the
  four replicas leader once. The client of the passing run sends to replica 2, which at that time may have led, be leading
  or lead later; what a request does depends on nothing else. `Workers` is 1, as in the tests, or 2, as in `config.yaml`.
* `ChainDuoBft`: three of the four replicas, the fewest that certify a slow block, one command for each chain. The second
  one comes before the first fast certificate (`RequestHeight = 1`) or when both chains have come to rest, so that it finds a
  chain at work and an idle one. The followers are symmetric.
* `cluster`: clusters of 3 (trusted counters), 4, 5 (`F = 2`) and 6 replicas (SBFT with a redundant server), two commands, or one
  where the leader or a follower lies or the results are followed; at most as many crashes as the protocol tolerates, at any
  moment. `MaxIndex = 5` gives the first leader of MirBFT two turns and each other one a turn; the other protocols
  do not reach it. Commands and followers are symmetric where
  the scenarios are: a state with two of them exchanged belongs to the scenario with them exchanged, which is in the set.
* `dq_cluster`: three or four replicas, one or two proposers, batches of one or two; in some scenarios one replica is down from
  the start, so that every quorum needs all others and every late message matters. Prime is checked from the start with one
  command, and with two from a state in which both are pre-ordered and the primary is about to propose (`Preordered`): up to there
  the two are independent. With all four replicas up, a command is pre-ordered and its matrix prepared at three of them while the fourth has heard of nothing (`Late`): it may commit the matrix before
  it has the command, and then executes with a further Commit (`oinstance.go:228`) or with the next matrix. Dispel is checked from the start with one replica down for three rounds, and with all four replicas
  from the start of the consensus for two, with the slot delivered at two or three replicas then and at another one later.
* `MaxJobs = 5` with one-slot channels in both pools: more jobs than everything in the pool can hold together.
* `ReqBuf`: four adders, two slots: both slots taken, one adder overshooting and one waiting behind it.
* `Transport`: three calls of `Send` with messages to the peer itself, to one that is up and to one that may be down, channels of
  one message (1024 in the code) and one broken stream: enough for a full channel nobody reads and for a second connection.
* `Rcc`: two leaders, three and two commands.
* `Peer`: two or three calls, queues of length 1, so that every queue is full in some interleaving.

Runs whose model ends (everything bounded is used up) switch deadlock checking off; they check instead that what
should have happened by then has (`AllExecuted`, `NothingStuck`, `AllRun`).

## Fairness

* `Pbft`: weak fairness of "some correct replica steps some message". Queues are drained and streams between correct
  replicas deliver; steps of different replicas use up a finite supply of messages, so fairness of their union is
  enough. Nothing forces clients or faulty replicas to act.
* `Parts` states the fairness of the parts it runs:
* `Dispatcher`, `BucketDispatcher`: weak fairness per goroutine and of the run loop's `AsyncCallback`: the Go scheduler
  runs every goroutine that can run. Submission is not fair.
* `ReqBuf`: weak fairness of the goroutines and of the run loop's `flush` (the ticker wakes it), strong fairness of
  taking the read lock, since a Go read-write lock lets the waiting readers in before the next writer.
* `Transport`: weak fairness of the sending goroutine, of each sender and receiver, and of `Close` once called. Streams need not
  break, and nobody need call `Close`.
* `Rcc`: weak fairness of each replica's run loop and of ordering: the replicators go on.
* `Peer`: weak fairness of goroutines that cannot be blocked again once they can run, strong fairness of those that
  wait for the lock or for room in a channel. A Go mutex hands over to the longest waiter after a millisecond, and a
  channel serves its blocked senders first in, first out. No client has to give up, and `Stop` need not be called.
* The protocols other than PBFT have no fairness. Every step uses up a message, a job or raises a status, so all their
  behaviours end, and `NothingStuck`, `AllExecuted` and `ChainExecuted` are invariants about the states in which they end. A replica
  that is slow, or that never gets a message, is a behaviour that has not ended.

## Proofs

Every theorem holds for all values of the constants that the named assumptions allow, and is checked by TLAPS to the last leaf.
The inductive invariants are definitions of the model's modules and were checked by TLC on the instances of the runs before they
were proved; that of `ClusterProofs` speaks of infinite sets of logs and messages, so it is defined there and only proved.

`LogLemmas` holds what the others need of sequences and numbers: the longest of several sequences, `FlattenSeq`, commands that move through a row
of queues, `Append`, `Tail` and removal index by index. The induction theorems of the library take an operator as a parameter, which the provers cannot
instantiate, so induction is by least counterexample: `LeastNumber` gives a nonempty *set* of numbers its least member, and a proof names the
set it needs. A recursive function is used through its defining equation, once it is shown that a function satisfies that.

### PBFT (`PbftProofs`)

From `ConfigAssumption` (at most `F` of `N` replicas are faulty, `N <= 3F + 1`). The second part is the
code's: `Quorum.Majority` asks for more than `2F` votes whatever `N` is, so two quorums must meet in a correct replica
by their size alone, and with more than `3F + 1` replicas they would not.

* `Invariant`: `Spec => []Inv`. `Agreement` is not inductive: it says nothing of the votes that are on their way. `Inv`
  says that every message of a correct replica, and every vote of it in a certificate, is backed by the state of its
  own instance (`SentByState`, `VotesByState`), that a status has its quorum in the certificates (`StatusHasVotes`), that
  the primary overwrites only instances it has not voted for (`ProposesAhead`), and that what is executed is the
  committed prefix (`ExecutedByLog`). A voted instance never changes its hash, because its own vote is in its
  certificate and a conflicting one panics, so backing survives every step.
* `Safety` (`Agreement`): two quorums share a correct replica (`QuorumsMeet`), whose instance has one hash.
* `SameOrder` (`PrefixOrder`), `CommitsSurvive` (`CommitHasQuorum`), `TypeCorrect`.
* All of these but `TypeCorrect` speak of states in which nobody has applied a NewView of a faulty replica (`NoNewView`); `newViews` only grows, so such a
  state has only such states behind it, and a step that applies one makes them true of nothing. The code has no more to offer: see the findings.
* `Refinement`: `Correct # {} => (Spec /\ []NoNewView => ImplementsTotalOrder)`, and `CrashRefinement`: `Correct # {} => (CrashSpec => ImplementsTotalOrder)`, where faulty replicas only fall
  silent and nothing is assumed. The abstract sequence is the longest sequence that a correct replica
  has executed, so there has to be one. A step changes what one replica has executed, by appending to it; since all
  sequences are prefixes of one another before and after (`PrefixOrder`), the abstract sequence is extended or stays, and the
  step is a delivery or a stutter.
* `CrashInvariant` and `PanicFree`: in `CrashSpec`, whose faulty replicas only fall silent, no handler panics (`NoPanic`). The panics of the
  code are about a command, hash or view that conflicts with what an instance holds, so `CrashInv` says that all messages for an index carry
  the primary's one proposal (`OneOfAKind`, `SentAfterProposal`, `HoldsProposal`) and that each vote in a certificate comes from a
  message that was taken in (`VotesStepped`, `VotedStepped`).

### DQPBFT (`DqPbftProofs`)

From `DqAssumption` (the same bound, for any scenario).

* `DqInvariant`: `Spec => []DqInv`. As long as no owner has overwritten its vote (`NoneOverwritten`), `DqInv` says that every prepared entry of either log has a quorum of votes behind its
  value, read off the instances (`Backed`), that an absent entry has no value, and that the entries a proposer or the
  primary will open next are unused (`Fresh`). The proof treats both logs by the same lemmas: a step gives one entry of
  one replica a value it may have and a status it has votes for (`EntryStep`), and `exec` changes nothing but committed
  to executed (`StoreEffect`, `ExecStep`).
* `DqSafety` (`LogsAgree`): from `Backed` and the meeting of quorums.
* `DqOrderInvariant`: `Spec => []OrderInv`. `ExecInv` says that a replica has executed the commands of the instances that its executed batches
  name, in their order and each instance once (`exec` skips an instance that an earlier batch named). `OneInstance` says that a command is
  proposed in one instance, unless a proposer equivocates.
* `DqRefinement`: `Correct # {} => (Spec /\ []NoneOverwritten => ImplementsTotalOrder)`. Of two replicas the one that has executed fewer batches has executed a prefix
  of the other's commands, because both logs agree on all that the shorter one needs; the rest is the argument of `Refinement`.
* `DqExecutesOnce` (`ExecutedOnce`): from `ExecInv` and `OneInstance`. Without an attack in the C log nothing is ever overwritten (the second part of `DqInv`), so nothing is assumed.

### Peer (`PeerProofs`)

From `PeerAssumption`, for any number of calls and any capacity of the queues. `PeerInv` says where each command and each message is
while it travels: what the protocol has emitted is, in this order, what was applied, what the applier holds, what is in its queue and what the
run loop has in hand (`InHand`, `ApplyOrder`), and the same for messages (`NoMessageLost`). `Tracked` says that the tracker holds a call under its
own command only and keeps results of applied commands only. `AppliesInOrder`, `SendsAll` and `AnswersAfterApplying` follow.

### Worker pools, request buffer, transport and rounds (`PartsProofs`)

From `PartsAssumption` and `TransportAssumption`.

* `HandsOverOnce` (`BufferOnce`): `BufInv` says that each claimed slot of the buffer has one owner and holds its command once written, and that no adder
  is between claiming and writing while `flush` has the write lock.
* `PoolsImplementAsyncJobs` (`ImplementsAsyncJobs`), for any number of workers, buckets and jobs. `OnePlace` says that an accepted job is in one place: the list of the
  dispatcher, its hand, a worker, the callback channel or among those that ran. `InOrder` says that everything submitted before a job, in its class, is
  ahead of it. The class of a job in the pool is 1 for all jobs when there is one worker, and its own number otherwise; in the bucket
  dispatcher it is the bucket. A callback is then the abstract step for the first job of its class that has not run, a call of `Exec` an
  abstract submission, and every other step a stutter.
* `DeliversInOrder` (`Fifo`), for any batches and capacity, any number of broken streams and Close at any moment. `NetInv` says that what is handled, in a stream, held by a sender and in a
  channel are, connection by connection, runs of the sequence of groups sent to that peer, and the runs of two connections do not overlap; a broken stream drops the rest of its run. `Groups` of a batch is
  defined without sorting (`To` picks the messages of one destination), because the prover has no definition of `SelectSeq` and `SortSeq`.
* `RoundsAlike` (`RoundsAgree`): `RccInv` says that a replica has executed some number of whole rounds, and that the commands of each leader that follow are
  waiting, in order and without a gap, in the leader's list or in what its replicator hands over next (`Waiting`).

### Chains (`ChainsProofs`)

From `HotstuffAssumption` and `ChainsAssumption`.

* `ChainInvariant`: `Spec => []ChainInv` in chained HotStuff. The blocks form one chain, each made by the leader whose `lastBeat` covers it (`Linear`), and a
  replica knows only blocks that were made (`Known`).
* `CommitsInOrder`: `Workers = 1 => (Spec => []LastCommitted)`. `InTurn` says that a proposal is in one place and that those in verification are above
  `lastVote` in the order of their heights; `Committing` says where lock and `bExec` stand below the accepted block. With two workers this is false: the run
  `hotstuff_workers` has the counterexample, so the hypothesis is needed.
* `ProposesOnce` (`OnePerHeight`), of HotStuff from `ChainInv` and of DuoBFT from `DuoInv`: the two flags that let the leader propose are up only when its chain has no block
  above the certificate (`Extendable`), a height has one block (`OneEach`), and a replica votes once per fast height, so the votes of a block pass the
  fast quorum once (`VotedOnce`).

### The protocols with one log (`ClusterLemmas`, `ClusterProofs`)

From `ClusterAssumption`: the number of replicas is the one the protocol needs for its `f` (and `c`) failures (`size`), at most `f` are faulty, and MirBFT's ids number
its members. A faulty leader equivocates; faulty followers share, vote and answer as they like but propose nothing. All four theorems are about `Spec` of `ClusterProtocols`, that is about all seven protocols.

* `Inv` has one part for DuoBFT and one, `ClusterInv`, for the other six, whose instances `ClusterLemmas` looks at through a common view: the hash an instance is bound
  to (`hashOf`), whether its replica has sent the vote that counts (`votedIn`), whether it is committed (`doneIn`). `Cert` says that enough replicas, the
  faulty ones always among them, have voted for a command at an index. `ClusterInv` says that an instance holds nothing but what a correct proposer has proposed there
  (`Entry`), that a committed instance and an executed command have a certificate (`EntriesOk`, `ExecOk`), that a correct proposer proposes a command
  once and at fresh indices (`Distinct`, `FreshOk`), and that what is in the channels and at the dispatchers is backed by the logs in the same way (`NetOk`): a Commit on its
  way has its certificate already, and so has a signature under verification. Hybster's votes, which are logged one by one, come from voters (`QuorumsOk`).
* Everything rests on one fact about logs: hashes and votes stay (`Advances`). A handler changes one instance of one replica, or runs the execution loop, so that each of
  the handlers of a protocol is shown to be such a step (`LogStep`, `Loop`) and the invariant is carried over by one lemma for all of them.
* `MirOk` adds that MirBFT's instances belong to proposers with clients and that the sequence numbers of a replica are ahead of its own instances: number `i` belongs to replica `i % n`, and
  `ModIs` shows that the numbers a replica hands out are its own.
* `DuoInv`: a replica has executed, of the commands with a `Meta`, those the leader has proposed before `TEnd`, the end of `texec`, and of the others those
  before `execIdx` (`DuoExec`, by way of `Chosen`, which filters a sequence). The lemmas on `Chosen` (what it does to appended and concatenated sequences, that
  a sequence has no command twice if neither of its halves has) are by induction on sequences (`SeqInduct`).
* `Certificates` (`Certified`) and `Answers` (`AnswerBacked`) follow from `Inv`. `OnceEach` (`ExecutedOnce`): two executions of one command would have two certificates, each with a correct voter and so
  with a proposal of the command, at two indices.
* `Order` (`ImplementsTotalOrder`): two certificates for one index are for one command, since two quorums meet in a correct replica (SBFT, its slow path, MirBFT) or the leader's
  trusted counter has one proposal per index (`OneCert`). So what two replicas have executed is compatible; a step appends to what one correct replica has executed
  (`Grows`), and `OrderStep` makes this a delivery or a stutter, for the commands of each kind.

### Only model-checked

* Liveness under fairness, and `NothingStuck`, `AllExecuted` and `ChainExecuted`, which are about states in which nothing is enabled: the prover has neither.
* The protocols of `DqCluster`, `Prime` and `Dispel`: `ExecutedOnce`, `DecisionsAgree`, `DecidedIsBroadcast` and their refinement of `TotalOrder`.

## Findings

* `peer_stop_panic`: `Stop` with a client call in flight panics. `FinishAll` closes the call's channel; the call marshals
  the nil it then receives, or closes the channel again, or the applier still sends on it.
* `peer_stop_hang`: `Stop` can wait for ever. The run loop leaves `p.msgs` full when it returns; the sending goroutine
  blocks in `HandleMessage` on a message to its own peer and never takes the stop event.
* `hotstuff_workers`: with two verifying workers a leader's own block can finish after its successor. `update` then moves
  `bExec` back, and the next decision executes the commands in between again.

Seen while reading, and not the subject of a run:

* PBFT: `onNewView` (`pbft.go:396-478`) applies the NewView of whoever is the primary of the view it names. `verifyNewView` compares it with the ViewChange messages the replica holds, and
  with none of them it passes: view and log are overwritten, committed instances included, so a single faulty replica can have another command committed at an index that is committed already. After a view change executed instances appear in the P set without their command (`exec` clears it), and the backups
  hash a nil command; `verifyA1` does not filter by index. DQPBFT: a repeated PrePrepare sets a finished instance
  back, and its sender is not compared with the owner of the instance (`cinstance.go:59-106`). An owner whose `onRequest` (`request.go:28`) then stores its own proposal over one it has voted for
  votes for two values, and the C log may split.
* SBFT, its slow path, linear Hybster: one repeated or contradicting share or result of any replica ends the leader's process (`sbftslow/instance.go:47`, `linhybster/instance.go:44`, `quorum.go:32`,
  `rquorum.go:27`), and the sender of a proposal is not looked at (`sbft/instance.go:62`, `sbftslow/instance.go:63`, `linhybster/instance.go:55`, where line 80 signs with counter 0).
* The command tracker caches a result only when no call waited for it, so a call repeated after its answer is executed again
  (`tracker.go:53`). The flush threshold leaves fewer commands than it in the buffer until `Stop` (`req_buf.go:45`).
* Prime: the primary's row of a proposal is its live summary (`oinstance.go:74` copies slice headers), so the primary may execute
  a command earlier than the replicas to which the row was marshalled. A replica that gets a request after the matrix that
  orders it executes at the next Commit only (`oinstance.go:228`); its own summary brings about a further matrix, so there is one. Summaries are signed in a pool (`messaging.go:37-46`) and carry no
  number: an older one may replace a newer one at the primary until the timer sends it again.
* RCC, Multichain DuoBFT: the commands of a round are executed in the order of a map iteration, which differs between replicas, and
  an idle leader holds everybody back. In a chain of Multichain DuoBFT the two rules execute in an order of their own at each
  replica, so there rounds need not agree either.
* Dispel: `onAfterSendReceiveAux` runs again for every Aux after the quorum (`dbft.go:355`), so a late Aux of round 1 proposes again in
  round 2 and two replicas can decide differently in rounds 2 and 3 although nobody is faulty: this is why `DecisionsAgree` stops at
  round 2 when four replicas run. Aux values that enter `binValues` late are not looked at again (`dbft.go:321`), so a slot can stay
  undecided. An amplified estimate is not counted by its sender (`dbft.go:157`). The coordinator's value is never used, since
  `binValues.Contains` is asked for a pointer (`dbft.go:255`). Estimates and aux messages are counted without their sender. A command
  whose slot was decided 0 can be proposed again twice (`rb.go:189`, `exec.go:33`). An epoch is executed in map order (`exec.go:26`).
* Multichain DuoBFT: `slowCommit` skips a block whose fast block has not been verified yet and never returns to it
  (`slowpath.go:88`), so a follower whose fast verification lags misses commands of the slow chain: `ChainExecuted` says what remains.
  `lastBeatFastHeight` and `lastBeatSlowHeight` stay 0. Execution clears the command of blocks that waiting proposals share, which
  changes their hash (`slowpath.go:111`).

## What is not modelled

* View changes among correct replicas: PBFT's is started by tests only, Hybster's `leaveViewFor` likewise; no other protocol has one. What a faulty replica's ViewChange, ViewChangeAck and NewView do to a
  correct replica of PBFT is in the model, and nothing is claimed of what follows a NewView.
* HotStuff's `newview.go` and the timer that would start it, whose registration is commented out; an equivocating leader of a
  chain.
* DQPBFT: repeated proposals, and batches that name an instance twice. A faulty replica in the model does neither. What follows after an owner has overwritten its own vote.
* SBFT, its slow path, linear Hybster: a lying follower that proposes, which their handlers accept. In the model a lying leader proposes, and a lying follower lies in shares and results.
* Lying replicas in `DqCluster`'s protocols, in Dispel and in the chains: those models have crashes. `DqPbft` has the lying proposer
  and the lying primary of a protocol with two logs.
* The results that SBFTx, Destiny and DQSBFT send back to a proposer (`Callback`, `stepResult`); SBFT and linear Hybster, which have the same
  code, have them (`AnswerBacked`).
* Dispel beyond one slot, and its panics on a message for an unknown epoch (`dbft.go:139`, `:283`), after which a replica is one that has crashed; `skipSlowPath` and reordering verifiers of the DuoBFT chain.
* In `Peer`: execution callbacks and NoExec packets, `Pause` (never called), and the key-value map behind the applier,
  which is a history of applied commands. In `Transport`: the `log.Fatal` arms, TLS, metrics.
* Timers by themselves: a counter. Whatever one starts is a step that may happen at any moment.
* Generated code (`*.pb.go`), enclaves and certifiers (cryptography, C and C++), client, master, experiment runner (I/O and
  deployment).

## Plan

1. Done: the runtime (`AsyncJobs`, `Dispatcher`, `BucketDispatcher`, `ReqBuf`, `Transport`, `Peer`, `Parts`); `TotalOrder`; PBFT and DQPBFT; the
   protocols with one log (`Cluster`), with two (`DqCluster`), the chains (`Chains`), RCC, Dispel. Proved: see Proofs.
2. Proofs: `DecisionsAgree`, `DecidedIsBroadcast` and `ExecutedOnce`
   of `DqCluster`, along the lines of `DqPbftProofs` and `ClusterProofs`.
3. `PbftViewChange`, if the code comes to start one: the P and Q sets as the code builds them, against `Agreement` across views.
