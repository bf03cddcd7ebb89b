--------------------------- MODULE ChainHotstuff ---------------------------
(***************************************************************************)
(* protocols/chainhotstuff: chained HotStuff with a rotating leader.  A    *)
(* replica checks a proposal or a vote on arrival, has its signatures      *)
(* verified by the goroutines of pkg/worker and goes on in a callback, so  *)
(* that other handlers run between the check and the continuation.         *)
(*                                                                         *)
(* Blocks are entries of a table that stands for the injective hash: the   *)
(* hash of a block is its place there.  A quorum certificate is the block  *)
(* it is for.  Every replica follows the code, and messages are delivered  *)
(* in any order.  The pacemaker's timer is registered nowhere, so its      *)
(* timeout and the NewView message it would send do not occur.             *)
(***************************************************************************)
EXTENDS Integers, Sequences, SequencesExt, FiniteSets

CONSTANTS
    N, F,           \* replicas 0 .. N - 1, and cfg.MaxFailures
    Workers,        \* cfg.Workers["edd_verify"]
    Commands, Nil,  \* commands of clients, and no command
    Clients,        \* the replicas that clients send to
    MaxHeight       \* bound on the height of a block

ASSUME HotstuffAssumption ==
    /\ N \in Nat \ {0} /\ F \in Nat /\ N > 3 * F
    /\ Workers \in Nat \ {0}
    /\ Clients \subseteq 0 .. N - 1
    /\ Nil \notin Commands /\ MaxHeight \in Nat \ {0}

VARIABLES
    chain,      \* the blocks made so far; an index is a BlockHash
    rep,        \* [Replicas -> the fields of chainhotstuff]
    requested,  \* the commands that clients have sent to a replica
    proposed,   \* [Replicas -> hashes of proposals on their way to the replica]
    votes       \* votes on their way to their leader

vars == <<chain, rep, requested, proposed, votes>>

Replicas == 0 .. N - 1

\* No block: the parent and the certificate of the genesis block.
None == 0
genesis == 1

\* The state of a replica after NewChainHotstuff has made its maps.  committed
\* is a history: the blocks that commit has visited, in order.
Start ==
    [blocks |-> {genesis}, lastVote |-> 0, bLock |-> genesis, bExec |-> genesis,
     bLeaf |-> genesis, highQC |-> genesis, verifiedVotes |-> {},
     pendingVotes |-> {}, pendingProposals |-> {}, lastBeat |-> 0,
     cmdQueue |-> << >>, jobs |-> << >>, committed |-> << >>]

\* newBlock
newBlock(parent, cmd, qc, height, proposer) ==
    [parent |-> parent, cmd |-> cmd, qc |-> qc, height |-> height, proposer |-> proposer]

getLeader(height) == height % N

Height(b) == chain[b].height

-----------------------------------------------------------------------------
(* The handlers, as functions from the state s of a replica to its next *)

\* The head of onPropose: an old proposal is ignored, the certificate of
\* another one is handed to the verifying workers.
onPropose(s, b, height) ==
    IF height <= s.lastVote THEN s
    ELSE [s EXCEPT !.jobs = Append(@, [type |-> "Propose", block |-> b])]

\* updateHighQC
updateHighQC(s, qc) ==
    IF qc \in s.blocks /\ Height(qc) > Height(s.highQC)
    THEN [s EXCEPT !.highQC = qc, !.bLeaf = qc]
    ELSE s

\* The cleanup deferred by onVote.
cleanVotes(s) ==
    [s EXCEPT !.verifiedVotes =
        {v \in @ : v.block \in s.blocks /\ Height(v.block) > Height(s.bLeaf)}]

\* The head of onVote: a vote waits for its block, an old one is ignored, the
\* signature of another one is handed to the verifying workers.
onVote(s, v) ==
    cleanVotes(IF v.block \notin s.blocks THEN [s EXCEPT !.pendingVotes = @ \cup {v}]
               ELSE IF Height(v.block) <= Height(s.bLeaf) THEN s
               ELSE [s EXCEPT !.jobs = Append(@, [type |-> "Vote", vote |-> v])])

\* commit: b and its ancestors above bExec, oldest first.
commit(s, b) ==
    LET path[x \in 0 .. b] ==
            IF x = None \/ Height(x) <= Height(s.bExec) THEN << >>
            ELSE IF chain[x].parent \in s.blocks THEN Append(path[chain[x].parent], x) ELSE <<x>>
    IN  [s EXCEPT !.committed = @ \o path[b]]

\* Mutant of update: the executed block is not remembered.
updateForgets(s, b) ==
    LET b1 == chain[b].qc
        s1 == updateHighQC(s, b1)
        b2 == chain[b1].qc
        s2 == IF Height(b2) > Height(s1.bLock) THEN [s1 EXCEPT !.bLock = b2] ELSE s1
        b3 == chain[b2].qc
    IN  IF b1 \notin s.blocks THEN s
        ELSE IF b2 \notin s.blocks THEN s1
        ELSE IF b3 \notin s.blocks \/ chain[b1].parent # b2 \/ chain[b2].parent # b3 THEN s2
        ELSE commit(s2, b3)

\* update: the new certificates raise highQC, lock a two-chain and commit a
\* three-chain of direct parents.
update(s, b) ==
    LET b1 == chain[b].qc
        s1 == updateHighQC(s, b1)
        b2 == chain[b1].qc
        s2 == IF Height(b2) > Height(s1.bLock) THEN [s1 EXCEPT !.bLock = b2] ELSE s1
        b3 == chain[b2].qc
    IN  IF b1 \notin s.blocks THEN s
        ELSE IF b2 \notin s.blocks THEN s1
        ELSE IF b3 \notin s.blocks \/ chain[b1].parent # b2 \/ chain[b2].parent # b3 THEN s2
        ELSE [commit(s2, b3) EXCEPT !.bExec = b3]

\* Mutant of deliver: only the votes are looked at.
deliverVotes(s, b) ==
    LET ready == {v \in s.pendingVotes : v.block = b}
    IN  FoldLeft(onVote, [s EXCEPT !.pendingVotes = @ \ ready], SetToSeq(ready))

\* deliver: the votes and the proposal that waited for block b.
deliver(s, b) ==
    LET ready == {v \in s.pendingVotes : v.block = b}
        s1 == FoldLeft(onVote, [s EXCEPT !.pendingVotes = @ \ ready], SetToSeq(ready))
        next == {p \in s1.pendingProposals : chain[p].qc = b}
        s2 == [s1 EXCEPT !.pendingProposals = @ \ next]
    IN  IF next = {} THEN s2
        ELSE LET p == CHOOSE p \in next : TRUE IN onPropose(s2, p, Height(p))

\* The vote rule of onProposeContinue: the certificate is for a block above the
\* lock, or the parents of b lead to the locked block.
safe(s, b) ==
    LET qc == chain[b].qc
        root[x \in 1 .. b] ==
            IF Height(x) <= Height(s.bLock) THEN x
            ELSE IF chain[x].parent \in s.blocks THEN root[chain[x].parent] ELSE None
    IN  \/ qc \in s.blocks /\ Height(qc) > Height(s.bLock)
        \/ root[b] = s.bLock

\* queueBlockPropose: a later proposal takes the place of an earlier one that
\* waits for the same block.
queueBlockPropose(s, b) ==
    [s EXCEPT !.pendingProposals = {p \in @ : chain[p].qc # chain[b].qc} \cup {b}]

-----------------------------------------------------------------------------
(* Actions *)

\* NewChainHotstuff: the leader of height 1 proposes an empty block.
Init ==
    LET leader == getLeader(1)
    IN  /\ chain = <<newBlock(None, Nil, None, 0, 0), newBlock(genesis, Nil, genesis, 1, leader)>>
        /\ rep = [r \in Replicas |->
                    IF r = leader
                    THEN [Start EXCEPT !.blocks = @ \cup {2},
                                       !.jobs = <<[type |-> "Propose", block |-> 2]>>]
                    ELSE Start]
        /\ requested = {}
        /\ proposed = [r \in Replicas |-> IF r = leader THEN {} ELSE {2}]
        /\ votes = {}

\* propose: the leader r, in state s, makes a block on bLeaf, sends it and
\* handles it like a proposal of another leader.
propose(r, s) ==
    LET height == Height(s.bLeaf) + 1
        cmd == IF s.cmdQueue = << >> THEN Nil ELSE Head(s.cmdQueue)
        b == Len(chain) + 1
        made == [s EXCEPT !.blocks = @ \cup {b},
                          !.cmdQueue = IF @ = << >> THEN @ ELSE Tail(@)]
    IN  /\ chain' = Append(chain, newBlock(s.bLeaf, cmd, s.highQC, height, r))
        /\ rep' = [rep EXCEPT ![r] = onPropose(made, b, height)]
        /\ proposed' = [q \in Replicas |-> IF q = r THEN proposed[q] ELSE proposed[q] \cup {b}]

\* The guards of pacemaker.beat: the leader of the height above bLeaf, once.
mayBeat(r, s) ==
    /\ Height(s.bLeaf) > s.lastBeat
    /\ r = getLeader(Height(s.bLeaf) + 1)
    /\ Height(s.bLeaf) < MaxHeight

\* pacemaker.beat
beat(r, s) ==
    \/ mayBeat(r, s) /\ propose(r, [s EXCEPT !.lastBeat = Height(s.bLeaf)])
    \/ ~mayBeat(r, s) /\ rep' = [rep EXCEPT ![r] = s] /\ UNCHANGED <<chain, proposed>>

\* onRequest
Request(r, c) ==
    /\ r \in Clients /\ c \notin requested
    /\ requested' = requested \cup {c}
    /\ beat(r, [rep[r] EXCEPT !.cmdQueue = Append(@, c)])
    /\ UNCHANGED votes

\* Step of a ProposeMessage.
StepPropose(r, b) ==
    /\ b \in proposed[r]
    /\ proposed' = [proposed EXCEPT ![r] = @ \ {b}]
    /\ rep' = [rep EXCEPT ![r] = onPropose(@, b, Height(b))]
    /\ UNCHANGED <<chain, requested, votes>>

\* Step of a VoteMessage.
StepVote(r, v) ==
    /\ v \in votes /\ getLeader(Height(v.block) + 1) = r
    /\ votes' = votes \ {v}
    /\ rep' = [rep EXCEPT ![r] = onVote(@, v)]
    /\ UNCHANGED <<chain, requested, proposed>>

\* The callback of onPropose: onProposeContinue.
onProposeContinue(r, s, b) ==
    LET voted == [s EXCEPT !.blocks = @ \cup {b}, !.lastVote = Height(b)]
        finished == deliver(update(voted, b), b)
        vote == [block |-> b, signer |-> r]
    IN  /\ IF ~safe(s, b)
           THEN /\ rep' = [rep EXCEPT ![r] = queueBlockPropose(s, b)]
                /\ UNCHANGED votes
           ELSE IF getLeader(Height(b) + 1) = r
           THEN /\ rep' = [rep EXCEPT ![r] = onVote(finished, vote)]
                /\ UNCHANGED votes
           ELSE /\ rep' = [rep EXCEPT ![r] = finished]
                /\ votes' = votes \cup {vote}
        /\ UNCHANGED <<chain, requested, proposed>>

\* The callback of onVote: onVoteContinue makes a certificate of 2f+1 votes,
\* which is the leader's signal to propose.
onVoteContinue(r, s, v) ==
    LET s1 == [s EXCEPT !.verifiedVotes = @ \cup {v}]
        of == {w \in s1.verifiedVotes : w.block = v.block}
    IN  /\ IF Cardinality(of) < 2 * F + 1
           THEN rep' = [rep EXCEPT ![r] = s1] /\ UNCHANGED <<chain, proposed>>
           ELSE beat(r, updateHighQC([s1 EXCEPT !.verifiedVotes = @ \ of], v.block))
        /\ UNCHANGED <<requested, votes>>

\* AsyncCallback runs the callback of a verified job.  The workers take the jobs
\* in order and any of the Workers jobs in hand may be finished first.
AsyncCallback(r) ==
    \E i \in 1 .. Len(rep[r].jobs) :
        LET j == rep[r].jobs[i]
            s == [rep[r] EXCEPT !.jobs = RemoveAt(@, i)]
        IN  /\ i <= Workers
            /\ \/ j.type = "Propose" /\ onProposeContinue(r, s, j.block)
               \/ j.type = "Vote" /\ onVoteContinue(r, s, j.vote)

Step(r) ==
    \/ \E b \in proposed[r] : StepPropose(r, b)
    \/ \E v \in votes : StepVote(r, v)

Next ==
    \E r \in Replicas : Step(r) \/ AsyncCallback(r) \/ \E c \in Commands : Request(r, c)

Spec == Init /\ [][Next]_vars

-----------------------------------------------------------------------------
(* Properties *)

\* The comment on bExec, "the last committed block": commit goes on after the last
\* block that it handed out, however the callbacks of the verifications are ordered.
LastCommitted ==
    \A r \in Replicas :
        LET done == rep[r].committed
        IN  rep[r].bExec = IF done = << >> THEN genesis ELSE Last(done)

\* beat: a new request and a new certificate may both ask for a proposal, and the
\* leader makes only one for a height.
OneProposal == \A a, b \in DOMAIN chain : Height(a) = Height(b) => a = b

\* When no message and no verification is under way, the chain has grown to the
\* bound and everybody has committed what is three blocks below its end: no vote
\* or proposal waits for ever for a block.  (Every step but the bounded requests
\* and proposals uses up a message or a job, so such a state is always reached.)
NothingStuck ==
    (votes = {} /\ \A r \in Replicas : proposed[r] = {} /\ rep[r].jobs = << >>)
        => /\ Height(Len(chain)) = MaxHeight
           /\ \A r \in Replicas : Height(rep[r].bExec) = MaxHeight - 3

-----------------------------------------------------------------------------
(* The inductive invariants behind OneProposal and LastCommitted *)

Block == [parent : Nat, cmd : Commands \cup {Nil}, qc : Nat, height : Nat, proposer : Nat]
Votes == [block : Nat, signer : Replicas]
Job == [type : {"Propose"}, block : Nat] \cup [type : {"Vote"}, vote : Votes]
State == [blocks : SUBSET Nat, lastVote : Nat, bLock : Nat, bExec : Nat, bLeaf : Nat,
          highQC : Nat, verifiedVotes : SUBSET Votes, pendingVotes : SUBSET Votes,
          pendingProposals : SUBSET Nat, lastBeat : Nat, cmdQueue : Seq(Commands),
          jobs : Seq(Job), committed : Seq(Nat)]

TypeOK ==
    /\ chain \in Seq(Block) /\ rep \in [Replicas -> State] /\ requested \subseteq Commands
    /\ proposed \in [Replicas -> SUBSET Nat] /\ votes \subseteq Votes
    /\ \A r \in Replicas : IsFiniteSet(rep[r].pendingVotes)

\* The proposals whose certificate a replica has in verification.
Verifying(s) == {s.jobs[i].block : i \in {k \in DOMAIN s.jobs : s.jobs[k].type = "Propose"}}

\* Every block is the child of the one before it, which its certificate is for,
\* and its leader remembers having proposed it.
Linear ==
    /\ \A b \in DOMAIN chain : /\ chain[b].height = b - 1
                               /\ chain[b].parent = b - 1 /\ chain[b].qc = b - 1
    /\ \A b \in 2 .. Len(chain) : rep[getLeader(b - 1)].lastBeat >= b - 2

\* What a replica knows are blocks that have been made.
Known(r, s) ==
    /\ genesis \in s.blocks /\ s.bLeaf \in s.blocks /\ s.highQC = s.bLeaf
    /\ s.blocks \cup s.pendingProposals \cup proposed[r] \cup Verifying(s) \subseteq DOMAIN chain

ChainInv == TypeOK /\ Linear /\ \A r \in Replicas : Known(r, rep[r])

\* Proposal b is in verification, ahead of every later one.
Ahead(s, b) ==
    \E i \in DOMAIN s.jobs :
       /\ s.jobs[i].type = "Propose" /\ s.jobs[i].block = b
       /\ \A k \in 1 .. i - 1 : s.jobs[k].type = "Propose" => s.jobs[k].block < b

\* With one verifying worker a replica accepts the blocks in order: a proposal is in
\* one place (arriving are those on their way), those in verification are above
\* lastVote, and those that a leader has made itself and not accepted yet are ahead of
\* the proposals built on them.
InTurn(s, arriving) ==
    /\ \A i, k \in DOMAIN s.jobs :
          s.jobs[i].type = "Propose" /\ s.jobs[k].type = "Propose" /\ s.jobs[i].block = s.jobs[k].block
             => i = k
    /\ Verifying(s) \cap (s.pendingProposals \cup arriving) = {}
    /\ s.pendingProposals \cap arriving = {}
    /\ \A b \in Verifying(s) : b > s.lastVote + 1
    /\ \A b \in s.blocks : 1 .. b \subseteq s.blocks
    /\ \A b \in s.blocks : b > s.lastVote + 1 => Ahead(s, b)

\* The lock is two blocks, and the last committed block three, below the accepted one.
Committing(s) ==
    /\ s.bLock \in s.blocks /\ (s.bLock = genesis \/ s.bLock <= s.lastVote - 1)
    /\ s.bExec \in s.blocks /\ (s.bExec = genesis \/ s.bExec <= s.lastVote - 2)
    /\ s.bExec = IF s.committed = << >> THEN genesis ELSE Last(s.committed)

TurnInv == \A r \in Replicas : InTurn(rep[r], proposed[r]) /\ Committing(rep[r])
=============================================================================
