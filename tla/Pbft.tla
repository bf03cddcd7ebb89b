-------------------------------- MODULE Pbft --------------------------------
(***************************************************************************)
(* The agreement protocol of protocols/pbft: requests, PrePrepare, Prepare *)
(* and Commit handlers, the vote quorums they count and the execution of   *)
(* the committed prefix.  One action is one call of Request or Step by the *)
(* run loop of a peer, which holds the peer's lock for the whole call.     *)
(*                                                                         *)
(* A broadcast is signed by a pool of workers and queued in several stages *)
(* before it reaches the network, so two broadcasts of one replica may     *)
(* overtake each other; a stream never duplicates.  The model therefore    *)
(* keeps every message ever broadcast and lets each peer step each of them *)
(* at most once, in any order, or never (a crashed or cut-off peer).       *)
(*                                                                         *)
(* Replicas in Faulty are not modelled by the code at all: any message     *)
(* that carries their identity may be stepped by any correct replica.      *)
(* That includes a NewView, which the code applies on the word of its      *)
(* sender: it overwrites the view and the log, committed instances         *)
(* included.  newViews remembers who has applied one, and what the module  *)
(* says of the order holds up to then (NoNewView) and not beyond.          *)
(***************************************************************************)
EXTENDS Integers, FiniteSets, Sequences

CONSTANTS
    N,          \* number of peers, len(p.nodes); peer ids are 0 .. N-1
    F,          \* LocalConfig.MaxFailures
    Faulty,     \* the peers that may deviate from the code
    LeaderID,   \* LocalConfig.LeaderID, the view every peer starts in
    Commands,   \* client commands
    Nil,        \* a nil pointer or an empty byte slice
    MaxIndex,   \* bound on the log positions that are used
    MaxView     \* bound on the views named in messages

Replicas == 0 .. N - 1
Correct == Replicas \ Faulty
Indices == 1 .. MaxIndex
Views == 0 .. MaxView

\* Command.Hash: a collision-free digest, of another type than the command.
Hash(c) == [digest |-> c]

Hashes == {Hash(c) : c \in Commands}

ASSUME ConfigAssumption ==
    /\ N \in Nat \ {0} /\ F \in Nat
    /\ N <= 3 * F + 1
    /\ Faulty \subseteq Replicas /\ Cardinality(Faulty) <= F
    /\ MaxView \in Nat /\ LeaderID \in Views
    /\ MaxIndex \in Nat
    /\ Nil \notin Commands \cup Hashes

VARIABLES
    view,           \* [Correct -> Views]       p.view
    viewChanging,   \* [Correct -> BOOLEAN]     p.viewChanging
    index,          \* [Correct -> Nat]         p.index, the last index proposed
    log,            \* [Correct -> [Indices -> Instance]]   p.log
    execute,        \* [Correct -> Nat]         p.execute, the next index to run
    executed,       \* [Correct -> Seq]         the commands handed to the applier
    msgs,           \* the agreement messages broadcast by correct replicas
    stepped,        \* [Correct -> SUBSET msgs] the ones a replica has stepped
    panicked,       \* the correct replicas whose process has died of a panic
    newViews        \* history: the correct replicas that have applied a NewView

viewVars == <<view, viewChanging>>
execVars == <<execute, executed>>
vars == <<view, viewChanging, index, log, execute, executed, msgs, stepped, panicked,
          newViews>>

-----------------------------------------------------------------------------
(* Data *)

Statuses == {"Absent", "None", "PrePrepared", "Prepared", "Committed"}

\* An AgreementMessage and its sender; the messages of a view change have
\* actions of their own below.
AgreementMessage == [type : {"PrePrepare", "Prepare", "Commit"}, from : Replicas,
                     view : Views, index : Indices,
                     cmd : Commands \cup {Nil}, hash : Hashes]

\* An entry of a Quorum: the sender and what AgreementMessage.Equals compares
\* (the index is the one of the instance that owns the quorum).
Vote == [from : Replicas, view : Views, hash : Hashes]

Instance == [status : Statuses, view : Views,
             cmd : Commands \cup {Nil}, hash : Hashes \cup {Nil},
             pCert : SUBSET Vote, cCert : SUBSET Vote]

\* A key that is missing from p.log.
NoInstance == [status |-> "Absent", view |-> LeaderID, cmd |-> Nil, hash |-> Nil,
               pCert |-> {}, cCert |-> {}]

isPrimaryAtView(id, v) == id = v % N

\* makeInstance: the instance of the first message about an index.
makeInstance(m) ==
    [status |-> "None", view |-> m.view, cmd |-> m.cmd, hash |-> m.hash,
     pCert |-> {}, cCert |-> {}]

-----------------------------------------------------------------------------
(* Quorums *)

\* Quorum.log: a replica's vote enters a certificate.
logVote(cert, id, v, h) == cert \cup {[from |-> id, view |-> v, hash |-> h]}

\* The two panics of Quorum.log: an older view, a second vote of one sender.
canLog(cert, id, v) ==
    /\ \A e \in cert : e.view <= v
    /\ \A e \in cert : ~(e.from = id /\ e.view = v)

\* The senders whose logged message equals one with this view and hash.
voters(cert, v, h) ==
    {id \in Replicas : [from |-> id, view |-> v, hash |-> h] \in cert}

\* Mutant of Majority: off by one.
MajorityOfTwoF(cert, v, h) == Cardinality(voters(cert, v, h)) >= 2 * F

\* Quorum.Majority: more than 2f logged messages equal the given one.
Majority(cert, v, h) == Cardinality(voters(cert, v, h)) > 2 * F

-----------------------------------------------------------------------------
(* Steps of one instance *)

\* The commit half shared by the three handlers.
tryCommit(inst, v, h) ==
    IF Majority(inst.cCert, v, h) /\ inst.status = "Prepared"
    THEN [inst EXCEPT !.status = "Committed"]
    ELSE inst

\* The prepare half: enough prepares turn the instance Prepared and log the
\* replica's own commit, which may at once complete the commit quorum.
prepares(inst, v, h) == Majority(inst.pCert, v, h) /\ inst.status = "PrePrepared"

\* Mutant of tryPrepare: commits that arrived early are not counted.
tryPrepareOnly(r, inst, v, h) ==
    IF prepares(inst, v, h)
    THEN [inst EXCEPT !.status = "Prepared", !.cCert = logVote(@, r, v, inst.hash)]
    ELSE inst

tryPrepare(r, inst, v, h) ==
    IF prepares(inst, v, h)
    THEN tryCommit([inst EXCEPT !.status = "Prepared",
                                !.cCert = logVote(@, r, v, inst.hash)], v, inst.hash)
    ELSE inst

\* Mutant of hashAgrees: a later message overwrites the hash.
hashAgreesAlways(inst, m) == TRUE

\* updateCommandHash (and makeInstance when the index is new).
hashAgrees(inst, m) ==
    inst.status = "Absent" \/ inst.hash = Nil \/ inst.hash = m.hash

withHash(inst, m) ==
    IF inst.status = "Absent" THEN makeInstance(m) ELSE [inst EXCEPT !.hash = m.hash]

\* Mutant of commandAgrees: an instance made by a Prepare has no command yet.
commandAgreesAlways(inst, m) == inst.status = "Absent" \/ inst.cmd = m.cmd

\* updateCommand.
commandAgrees(inst, m) ==
    inst.status = "Absent" \/ inst.cmd = Nil \/ inst.cmd = m.cmd

\* onPrePrepare up to its first Majority test: the command and hash are
\* recorded and the primary's and the replica's own prepare votes are logged.
prePrepared(r, inst, m) ==
    LET known == [withHash(inst, m) EXCEPT !.cmd = m.cmd]
    IN  [known EXCEPT !.status = "PrePrepared",
                      !.pCert = logVote(logVote(@, m.from, m.view, m.hash),
                                        r, known.view, m.hash)]

-----------------------------------------------------------------------------
(* Actions *)

Init ==
    /\ view = [r \in Correct |-> LeaderID]
    /\ viewChanging = [r \in Correct |-> FALSE]
    /\ index = [r \in Correct |-> 0]
    /\ log = [r \in Correct |-> [i \in Indices |-> NoInstance]]
    /\ execute = [r \in Correct |-> 1]
    /\ executed = [r \in Correct |-> << >>]
    /\ msgs = {}
    /\ stepped = [r \in Correct |-> {}]
    /\ panicked = {}
    /\ newViews = {}

Running(r) == r \in Correct \ panicked

broadcast(S) == msgs' = msgs \cup S

\* A panic or Fatalf ends the process; nothing it did since is seen by others.
Panic(r) ==
    /\ panicked' = panicked \cup {r}
    /\ UNCHANGED <<view, viewChanging, index, log, execute, executed, msgs>>

\* exec: run the committed commands from p.execute on, up to the first gap.
runnable(inst) == inst.status = "Committed" /\ inst.cmd # Nil

\* Mutant of exec: "continue" instead of "break" at a gap.
execPastGaps(r, l) ==
    LET run == SelectSeq([i \in Indices |-> i], LAMBDA i : i >= execute[r] /\ runnable(l[i]))
    IN  /\ execute' = [execute EXCEPT ![r] = @ + Len(run)]
        /\ executed' = [executed EXCEPT ![r] = @ \o [j \in 1 .. Len(run) |-> l[run[j]].cmd]]
        /\ log' = [log EXCEPT ![r] = [i \in Indices |-> IF i >= execute[r] /\ runnable(l[i])
                                          THEN [l[i] EXCEPT !.cmd = Nil] ELSE l[i]]]

exec(r, l) ==
    \E k \in execute[r] .. MaxIndex + 1 :
        /\ \A j \in execute[r] .. k - 1 : runnable(l[j])
        /\ k \in Indices => ~runnable(l[k])
        /\ execute' = [execute EXCEPT ![r] = k]
        /\ executed' = [executed EXCEPT ![r] =
                           @ \o [j \in 1 .. k - execute[r] |-> l[execute[r] + j - 1].cmd]]
        /\ log' = [log EXCEPT ![r] =
                      [i \in Indices |-> IF i \in execute[r] .. k - 1
                                         THEN [l[i] EXCEPT !.cmd = Nil] ELSE l[i]]]

\* The handlers store the instance and call exec when it has just committed.
store(r, i, inst) ==
    IF inst.status = "Committed" /\ log[r][i].status # "Committed"
    THEN exec(r, [log[r] EXCEPT ![i] = inst])
    ELSE log' = [log EXCEPT ![r][i] = inst] /\ UNCHANGED execVars

CommitMsg(r, v, i, h) ==
    [type |-> "Commit", from |-> r, view |-> v, index |-> i, cmd |-> Nil, hash |-> h]

PrepareMsg(r, v, i, h) ==
    [type |-> "Prepare", from |-> r, view |-> v, index |-> i, cmd |-> Nil, hash |-> h]

\* onRequest: the primary assigns the next index and proposes the command.
onRequest(r, c) ==
    /\ Running(r)
    /\ isPrimaryAtView(r, view[r])
    /\ index[r] < MaxIndex
    /\ LET i == index[r] + 1
           v == view[r]
       IN  /\ index' = [index EXCEPT ![r] = i]
           /\ log' = [log EXCEPT ![r][i] =
                         [status |-> "PrePrepared", view |-> v, cmd |-> c, hash |-> Hash(c),
                          pCert |-> logVote({}, r, v, Hash(c)), cCert |-> {}]]
           /\ broadcast({[type |-> "PrePrepare", from |-> r, view |-> v, index |-> i,
                          cmd |-> c, hash |-> Hash(c)]})
    /\ UNCHANGED <<view, viewChanging, execVars, stepped, panicked, newViews>>

\* stepAgreement: what is dropped before a handler runs.
accepts(r, m) == ~viewChanging[r] /\ m.view = view[r]

PrePreparePanics(r, m) ==
    LET inst == log[r][m.index]
        v == IF inst.status = "Absent" THEN m.view ELSE inst.view
    IN  \/ m.cmd = Nil \/ m.hash # Hash(m.cmd)
        \/ ~commandAgrees(inst, m) \/ ~hashAgrees(inst, m)
        \/ ~canLog(inst.pCert, m.from, m.view)
        \/ ~canLog(logVote(inst.pCert, m.from, m.view, m.hash), r, v)
        \/ /\ prepares(prePrepared(r, inst, m), v, m.hash)
           /\ ~canLog(inst.cCert, r, v)

onPrePrepare(r, m) ==
    LET inst == log[r][m.index]
        pp == prePrepared(r, inst, m)
        v == pp.view
    IN  /\ isPrimaryAtView(m.from, view[r])
        /\ IF PrePreparePanics(r, m) THEN Panic(r)
           ELSE /\ store(r, m.index, tryPrepare(r, pp, v, m.hash))
                /\ broadcast({PrepareMsg(r, v, m.index, m.hash)} \cup
                             (IF prepares(pp, v, m.hash)
                              THEN {CommitMsg(r, v, m.index, m.hash)} ELSE {}))
                /\ UNCHANGED <<viewVars, index, panicked>>

\* A Prepare or Commit enters its certificate.
withPrepare(inst, m) ==
    [withHash(inst, m) EXCEPT !.pCert = logVote(@, m.from, m.view, m.hash)]

withCommit(inst, m) ==
    [withHash(inst, m) EXCEPT !.cCert = logVote(@, m.from, m.view, m.hash)]

PreparePanics(r, m) ==
    LET inst == log[r][m.index]
    IN  \/ ~hashAgrees(inst, m)
        \/ ~canLog(inst.pCert, m.from, m.view)
        \/ prepares(withPrepare(inst, m), m.view, m.hash) /\ ~canLog(inst.cCert, r, m.view)

onPrepare(r, m) ==
    LET voted == withPrepare(log[r][m.index], m)
    IN  /\ ~isPrimaryAtView(m.from, view[r])
        /\ IF PreparePanics(r, m) THEN Panic(r)
           ELSE /\ store(r, m.index, tryPrepare(r, voted, m.view, m.hash))
                /\ broadcast(IF prepares(voted, m.view, m.hash)
                             THEN {CommitMsg(r, m.view, m.index, m.hash)} ELSE {})
                /\ UNCHANGED <<viewVars, index, panicked>>

onCommit(r, m) ==
    LET inst == log[r][m.index]
        voted == withCommit(inst, m)
    IN  IF ~hashAgrees(inst, m) \/ ~canLog(inst.cCert, m.from, m.view)
        THEN Panic(r)
        ELSE /\ store(r, m.index, tryCommit(voted, m.view, m.hash))
             /\ UNCHANGED <<viewVars, index, msgs, panicked>>

handle(r, m) ==
    \/ m.type = "PrePrepare" /\ onPrePrepare(r, m)
    \/ m.type = "Prepare" /\ onPrepare(r, m)
    \/ m.type = "Commit" /\ onCommit(r, m)

\* Step of a message that a correct replica broadcast.
StepMessage(r) ==
    /\ Running(r)
    /\ \E m \in msgs :
          /\ m.from # r /\ m \notin stepped[r]
          /\ accepts(r, m)
          /\ stepped' = [stepped EXCEPT ![r] = @ \cup {m}]
          /\ handle(r, m)
    /\ UNCHANGED newViews

\* Step of an agreement message from a faulty replica.
StepFaulty(r) ==
    /\ Running(r)
    /\ \E m \in AgreementMessage :
          /\ m.from \in Faulty
          /\ accepts(r, m)
          /\ handle(r, m)
    /\ UNCHANGED <<stepped, newViews>>

\* onNewView: the sender is the primary of the view it announces.  verifyNewView
\* passes when vcQuorum holds no valid ViewChange that names an index, and a
\* correct replica sends none (startViewChange has no caller but a test), so it
\* rejects nothing that the faulty ones want applied.  Every instance of the
\* message replaces the one in the log, whatever its status, and goes through
\* onPrePrepare: the votes of the sender and of r are two, no majority since
\* F >= 1.  cmds[i] is Nil where the message has no instance.
StepNewView(r) ==
    /\ Running(r)
    /\ \E from \in Faulty, v \in Views, cmds \in [Indices -> Commands \cup {Nil}] :
          LET ppm(i) == [type |-> "PrePrepare", from |-> from, view |-> v, index |-> i,
                         cmd |-> cmds[i], hash |-> Hash(cmds[i])]
          IN  /\ isPrimaryAtView(from, v)
              /\ viewChanging[r] \/ view[r] # v
              /\ view' = [view EXCEPT ![r] = v]
              /\ viewChanging' = [viewChanging EXCEPT ![r] = FALSE]
              /\ log' = [log EXCEPT ![r] =
                            [i \in Indices |-> IF cmds[i] = Nil THEN log[r][i]
                                               ELSE prePrepared(r, makeInstance(ppm(i)), ppm(i))]]
              /\ broadcast({PrepareMsg(r, v, i, Hash(cmds[i])) :
                               i \in {j \in Indices : cmds[j] # Nil}})
    /\ newViews' = newViews \cup {r}
    /\ UNCHANGED <<index, execVars, stepped, panicked>>

\* The other outcomes of the messages of a view change.  A ViewChange whose P or
\* Q set names a later view, a ViewChangeAck with another digest and a NewView
\* of another replica's view or with a wrong hash end the process.  Those of
\* the faulty replicas that do not are kept in vcQuorum and change nothing
\* else: a NewView is constructed, and one that is not empty verified, from
\* 2F+1 ViewChange messages.
StepViewChange(r) ==
    /\ Running(r)
    /\ Faulty # {}
    /\ Panic(r)
    /\ UNCHANGED <<stepped, newViews>>

Next ==
    \E r \in Correct :
        \/ \E c \in Commands : onRequest(r, c)
        \/ StepMessage(r)
        \/ StepFaulty(r)
        \/ StepNewView(r)
        \/ StepViewChange(r)

Spec == Init /\ [][Next]_vars

\* Faulty replicas that only crash, and a run loop and transport that keep
\* working for the others.
CrashNext ==
    \E r \in Correct :
        \/ \E c \in Commands : onRequest(r, c)
        \/ StepMessage(r)

CrashSpec == Init /\ [][CrashNext]_vars

FairSpec == CrashSpec /\ WF_vars(\E r \in Correct : StepMessage(r))

-----------------------------------------------------------------------------
(* Properties *)

TypeOK ==
    /\ view \in [Correct -> Views]
    /\ viewChanging \in [Correct -> BOOLEAN]
    /\ index \in [Correct -> 0 .. MaxIndex]
    /\ log \in [Correct -> [Indices -> Instance]]
    /\ execute \in [Correct -> 1 .. MaxIndex + 1]
    /\ executed \in [Correct -> Seq(Commands)]
    /\ msgs \subseteq AgreementMessage
    /\ stepped \in [Correct -> SUBSET msgs]
    /\ panicked \subseteq Correct
    /\ newViews \subseteq Correct

\* No correct replica has applied a NewView of a faulty one.
NoNewView == newViews = {}

\* Until a NewView of a faulty replica is applied, two correct replicas never
\* commit different commands at one index, whatever PrePrepare, Prepare and
\* Commit messages the faulty ones send: Majority guards both phases.
Agreement ==
  NoNewView =>
    \A r, s \in Correct : \A i \in Indices :
        log[r][i].status = "Committed" /\ log[s][i].status = "Committed"
            => log[r][i].hash = log[s][i].hash

\* exec hands every replica's applier the same commands in the same order: of
\* two correct replicas one has executed a prefix of the other, until a NewView
\* of a faulty replica is applied.
PrefixOrder ==
  NoNewView =>
    \A r, s \in Correct : \A i \in 1 .. Len(executed[r]) :
        i <= Len(executed[s]) => executed[r][i] = executed[s][i]

\* What a replica has committed, a quorum has prepared: until a NewView of a
\* faulty replica is applied, at least f+1 correct replicas still hold the
\* command's hash as prepared, so that any later quorum of view-change messages
\* names it.
CommitHasQuorum ==
  NoNewView =>
    \A r \in Correct : \A i \in Indices :
        log[r][i].status = "Committed" =>
            Cardinality({s \in Correct : /\ log[s][i].status \in {"Prepared", "Committed"}
                                        /\ log[s][i].hash = log[r][i].hash})
                > 2 * F - Cardinality(Faulty)

\* When replicas only crash, none of the panics of Quorum.log, updateCommand and
\* updateCommandHash is reachable, in whatever order the messages arrive.
NoPanic == panicked = {}

-----------------------------------------------------------------------------
(* The inductive invariant behind Agreement and PrefixOrder *)

Voted == {"PrePrepared", "Prepared", "Committed"}

Vouches(s, i, h) == log[s][i].status \in Voted /\ log[s][i].hash = h

Certifies(s, i, h) == log[s][i].status \in {"Prepared", "Committed"} /\ log[s][i].hash = h

\* Nobody has left the first view.
OneView ==
    /\ \A r \in Correct : view[r] = LeaderID
    /\ \A r \in Correct : \A i \in Indices : log[r][i].view = LeaderID

\* What a correct replica has broadcast is what its own instance says.
SentByState ==
    \A m \in msgs :
        /\ m.from \in Correct
        /\ m.type # "Commit" => Vouches(m.from, m.index, m.hash)
        /\ m.type = "Commit" => Certifies(m.from, m.index, m.hash)

\* So is every vote of a correct replica in anybody's certificate.
VotesByState ==
    \A r \in Correct : \A i \in Indices :
        /\ \A e \in log[r][i].pCert : e.from \in Correct => Vouches(e.from, i, e.hash)
        /\ \A e \in log[r][i].cCert : e.from \in Correct => Certifies(e.from, i, e.hash)

\* An instance that has voted holds its own vote (a second PrePrepare meets it
\* in Quorum.log), and the quorum that its status stands for.
HasVotes(r, inst) ==
    /\ inst.status # "Absent" => inst.hash # Nil
    /\ inst.status \in Voted =>
          [from |-> r, view |-> LeaderID, hash |-> inst.hash] \in inst.pCert
    /\ inst.status \in {"Prepared", "Committed"} =>
          Majority(inst.pCert, LeaderID, inst.hash)
    /\ inst.status = "Committed" => Majority(inst.cCert, LeaderID, inst.hash)
    /\ inst.status \in Voted /\ inst.cmd # Nil => inst.hash = Hash(inst.cmd)

StatusHasVotes == \A r \in Correct : \A i \in Indices : HasVotes(r, log[r][i])

\* The primary overwrites only instances it has not voted for.
ProposesAhead ==
    \A r \in Correct : isPrimaryAtView(r, LeaderID) =>
        \A i \in Indices : i > index[r] => log[r][i].status \notin Voted

\* The executed commands are those of the committed instances before execute.
ExecutedByLog ==
    \A r \in Correct :
        /\ Len(executed[r]) = execute[r] - 1
        /\ \A i \in 1 .. execute[r] - 1 : /\ log[r][i].status = "Committed"
                                          /\ log[r][i].hash = Hash(executed[r][i])

FirstView ==
    /\ TypeOK /\ OneView /\ SentByState /\ VotesByState
    /\ StatusHasVotes /\ ProposesAhead /\ ExecutedByLog

\* As long as nobody has applied a NewView of a faulty replica, what a correct
\* replica has sent and what others hold of it agree with its own instances,
\* and a status stands for the votes that onPrepare and onCommit asked for.
Inv == NoNewView => FirstView

-----------------------------------------------------------------------------
(* The inductive invariant behind NoPanic, for CrashSpec *)

\* A replica broadcasts one message of each type about an index.
OneOfAKind ==
    \A m, n \in msgs : m.type = n.type /\ m.from = n.from /\ m.index = n.index => m = n

\* Only the primary proposes, with the command beside its hash and below its
\* index; whatever is sent about an index names the proposal's hash.
Proposal(m, i, h) == m.type = "PrePrepare" /\ m.index = i /\ m.hash = h

SentAfterProposal ==
    \A m \in msgs :
        /\ m.type = "PrePrepare" =>
              /\ isPrimaryAtView(m.from, LeaderID) /\ m.index <= index[m.from]
              /\ m.cmd \in Commands /\ m.hash = Hash(m.cmd)
        /\ m.type = "Prepare" => ~isPrimaryAtView(m.from, LeaderID)
        /\ m.type # "PrePrepare" => m.cmd = Nil
        /\ m.view = LeaderID
        /\ \E p \in msgs : Proposal(p, m.index, m.hash)

\* An instance stands for the proposal of its index.
HoldsProposal ==
    \A r \in Correct : \A i \in Indices :
        IF log[r][i].status = "Absent" THEN log[r][i].pCert = {} /\ log[r][i].cCert = {}
        ELSE \E p \in msgs : Proposal(p, i, log[r][i].hash) /\ log[r][i].cmd \in {Nil, p.cmd}

\* The votes in a certificate come from messages that were stepped once each,
\* the replica's own with its status.
VotesStepped ==
    \A r \in Correct : \A i \in Indices :
        /\ \A e \in log[r][i].pCert :
              /\ e.view = LeaderID
              /\ IF e.from = r THEN log[r][i].status \in Voted
                 ELSE \E m \in stepped[r] : m.type # "Commit" /\ m.from = e.from /\ m.index = i
        /\ \A e \in log[r][i].cCert :
              /\ e.view = LeaderID
              /\ IF e.from = r THEN log[r][i].status \in {"Prepared", "Committed"}
                 ELSE \E m \in stepped[r] : m.type = "Commit" /\ m.from = e.from /\ m.index = i

\* A backup votes when it steps the proposal.
VotedStepped ==
    \A r \in Correct : \A i \in Indices :
        log[r][i].status \in Voted /\ ~isPrimaryAtView(r, LeaderID)
            => \E m \in stepped[r] : m.type = "PrePrepare" /\ m.index = i

CrashInv ==
    /\ FirstView /\ NoNewView /\ NoPanic /\ OneOfAKind /\ SentAfterProposal
    /\ HoldsProposal /\ VotesStepped /\ VotedStepped

-----------------------------------------------------------------------------
(* Liveness and refinement *)

\* Everything the primary proposes is executed by every correct replica once
\* the messages between correct replicas arrive: no order of arrival leaves a
\* quorum complete but unnoticed.
AllExecuted == <>[](\A r, s \in Correct : execute[s] > index[r])

\* The longest sequence of commands a correct replica has executed.
LongestExecuted ==
    executed[CHOOSE r \in Correct : \A s \in Correct : Len(executed[s]) <= Len(executed[r])]

Abstract == INSTANCE TotalOrder WITH Replicas <- Correct, order <- LongestExecuted,
                                     delivered <- executed

\* While nobody applies a NewView of a faulty replica, PBFT implements the total
\* order: exec never hands over a command at a position where another correct
\* replica has executed another one.
ImplementsTotalOrder == Abstract!Spec

=============================================================================
