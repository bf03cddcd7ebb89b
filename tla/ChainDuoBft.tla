---------------------------- MODULE ChainDuoBft ----------------------------
(***************************************************************************)
(* protocols/multichainduobft/chainduobft: one leader, one sequence of     *)
(* blocks and two chains in it.  A block carries the next block of the     *)
(* fast chain (a command or nothing, certified by f + 1 votes), of the     *)
(* slow chain (certified by 2f + 1), or of both.  The block of the slow    *)
(* chain at some height stands for the command at that height of the fast  *)
(* one, which is this very block (SelfPropose) or an earlier one.  A       *)
(* command with Meta is executed by the fast chain, two blocks deep, any   *)
(* other by the slow chain, three blocks deep.                             *)
(*                                                                         *)
(* The leader never changes and follows the code, so that a height names   *)
(* one block, its certificate and its parent.  Both chains are verified by *)
(* dispatchers of their own, which here keep the order of the proposals:   *)
(* the one chain may run ahead of the other, and pending proposals do not  *)
(* arise.  Votes and signatures take any order.                            *)
(***************************************************************************)
EXTENDS Integers, Sequences, FiniteSets, FiniteSetsExt

CONSTANTS
    Nodes, Primary,     \* the replicas that run, and the leader of the view
    MaxFaults,          \* f
    Cmds, Meta, NoCmd,  \* commands, those among them with Meta, and no command
    RequestHeight       \* bound: see onRequest

DuoAssumption ==
    /\ Primary \in Nodes /\ MaxFaults \in Nat \ {0} /\ Cardinality(Nodes) > 2 * MaxFaults
    /\ Meta \subseteq Cmds /\ NoCmd \notin Cmds /\ RequestHeight \in Nat

VARIABLES
    asked,          \* the commands that clients have sent
    cmdQueue,       \* the leader's queue of commands
    blockchain,     \* the blocks proposed so far
    pacemaker,      \* the leader's pacemaker and its last heights
    scheduled,      \* the leader's callbackC: own blocks, and 0 for a beat
    node,           \* [Nodes -> what a replica has accepted, voted for and executed]
    verifiedVotes   \* [blocks -> replicas whose vote the leader has counted]

vars == <<asked, cmdQueue, blockchain, pacemaker, scheduled, node, verifiedVotes>>

fastQuorumSize == MaxFaults + 1
slowQuorumSize == 2 * MaxFaults + 1

\* The block at a height of a chain; a block without a state of that chain has height 0.
fastAt(h) == {b \in DOMAIN blockchain : blockchain[b].fast = h}
slowAt(h) == {b \in DOMAIN blockchain : blockchain[b].slow = h}
cmdAt(h) == blockchain[CHOOSE b \in fastAt(h) : TRUE].cmd

\* fast and slow are the heights of the last blocks accepted, signing the blocks without
\* a fast state that wait for their signature.
newNode == [fast |-> 0, slow |-> 0, lastVoteFast |-> 0, lastVoteSlow |-> 0, bExecSlow |-> 0,
            signing |-> {}, executed |-> {}]

Init ==
    /\ asked = {} /\ cmdQueue = << >> /\ blockchain = << >> /\ scheduled = << >>
    /\ pacemaker = [fast |-> 0, slow |-> 0, fastHighQCChanged |-> TRUE, slowHighQCChanged |-> TRUE,
                    lastFastHeightWithCommand |-> 0, lastFastHeight |-> 0]
    /\ node = [r \in Nodes |-> newNode]
    /\ verifiedVotes = << >>

-----------------------------------------------------------------------------
(* The leader's proposals *)

\* Mutants: one dummy block too few; the flag of the slow chain is not reset.
dueLess(withCommand) == withCommand >= pacemaker.lastFastHeight
extendedFast(p, fast, slow) == [p EXCEPT !.fastHighQCChanged = @ /\ ~fast]

\* Another fast block is due: two without a command follow the last one with a
\* command, which is what certifies and executes that one on both chains.
due(withCommand) == withCommand + 1 >= pacemaker.lastFastHeight

\* A proposal that extends a certificate uses it up.
extended(p, fast, slow) ==
    [p EXCEPT !.fastHighQCChanged = @ /\ ~fast, !.slowHighQCChanged = @ /\ ~slow]

\* beat and propose with this queue, the callbacks s being scheduled already.  The heights
\* of the last beats stay 0, so that only the two flags keep a height from being proposed
\* twice.
propose(q, s) ==
    LET p == pacemaker
        fastHeight == p.fast + 1
        slowHeight == p.slow + 1
        cmd == IF p.fastHighQCChanged /\ q # << >> THEN Head(q) ELSE NoCmd
        withCommand == IF cmd # NoCmd THEN fastHeight ELSE p.lastFastHeightWithCommand
        fast == p.fastHighQCChanged /\ due(withCommand)
        self == fast /\ fastHeight = slowHeight
        slow == p.slowHighQCChanged /\ (self \/ fastAt(slowHeight) # {})
        sent == fast \/ slow
        blk == [fast |-> IF fast THEN fastHeight ELSE 0, slow |-> IF slow THEN slowHeight ELSE 0,
                cmd |-> cmd, self |-> self /\ slow]
    IN  /\ cmdQueue' = IF cmd # NoCmd THEN Tail(q) ELSE q
        /\ blockchain' = IF sent THEN Append(blockchain, blk) ELSE blockchain
        /\ verifiedVotes' = IF sent THEN Append(verifiedVotes, {}) ELSE verifiedVotes
        /\ scheduled' = IF sent THEN Append(s, Len(blockchain) + 1) ELSE s
        /\ pacemaker' = [extended(p, fast, slow) EXCEPT
                           !.lastFastHeightWithCommand = withCommand,
                           !.lastFastHeight = IF fast THEN fastHeight ELSE @]

\* Nothing is scheduled, to be verified or to be signed.
quiet ==
    /\ scheduled = << >>
    /\ \A r \in Nodes :
          /\ fastAt(node[r].fast + 1) = {} /\ slowAt(node[r].slow + 1) = {}
          /\ node[r].lastVoteFast = node[r].fast /\ node[r].signing = {}

\* A client's command.  Bound: it comes before the fast chain has got to
\* RequestHeight, or when both chains have come to rest.
onRequest(c) ==
    /\ c \in Cmds \ asked
    /\ pacemaker.fast < RequestHeight \/ quiet
    /\ asked' = asked \cup {c}
    /\ propose(Append(cmdQueue, c), scheduled)
    /\ UNCHANGED node

-----------------------------------------------------------------------------
(* Accepted blocks *)

\* onFastProposeContinue with the next block of the fast chain: it is accepted, and the
\* blocks below are executed.
onFastPropose(n) ==
    [n EXCEPT !.fast = @ + 1, !.executed = @ \cup ({cmdAt(h) : h \in 1 .. n.fast} \cap Meta)]

\* slowCommit up to height h, where known are the heights of the fast chain that the
\* replica has: a block whose command is missing is left out, and not visited again once
\* a later one has been executed.
slowCommit(n, h, known) ==
    LET self(k) == \A b \in slowAt(k) : blockchain[b].self
        ready == {k \in n.bExecSlow + 1 .. h : self(k) \/ k \in known}
    IN  [n EXCEPT !.bExecSlow = Max(ready \cup {@}),
                  !.executed = @ \cup ({cmdAt(k) : k \in ready} \ (Meta \cup {NoCmd}))]

\* onSlowProposeContinue with the next block b of the slow chain.
onSlowPropose(n, b, known) ==
    LET votes == blockchain[b].fast = 0 /\ n.slow + 1 > n.lastVoteSlow
        accepted == [n EXCEPT !.slow = @ + 1, !.signing = IF votes THEN @ \cup {b} ELSE @]
    IN  slowCommit(accepted, n.slow - 1, known)

\* The callbacks of onPropose at a follower.
FastVerified(r) ==
    /\ r # Primary /\ fastAt(node[r].fast + 1) # {}
    /\ node' = [node EXCEPT ![r] = onFastPropose(@)]
    /\ UNCHANGED <<asked, cmdQueue, blockchain, pacemaker, scheduled, verifiedVotes>>

SlowVerified(r) ==
    /\ r # Primary
    /\ \E b \in slowAt(node[r].slow + 1) :
          node' = [node EXCEPT ![r] = onSlowPropose(@, b, 1 .. @.fast)]
    /\ UNCHANGED <<asked, cmdQueue, blockchain, pacemaker, scheduled, verifiedVotes>>

\* AsyncCallback at the leader runs what scheduleBack has put there: a beat, or both
\* parts of its own block.
Scheduled ==
    /\ scheduled # << >>
    /\ UNCHANGED asked
    /\ IF Head(scheduled) = 0
       THEN propose(cmdQueue, Tail(scheduled)) /\ UNCHANGED node
       ELSE LET b == Head(scheduled)
                known == {blockchain[k].fast : k \in DOMAIN blockchain}
                n == IF blockchain[b].fast = 0 THEN node[Primary] ELSE onFastPropose(node[Primary])
            IN  /\ node' = [node EXCEPT ![Primary] =
                               IF blockchain[b].slow = 0 THEN n
                               ELSE onSlowPropose(n, b, known)]
                /\ scheduled' = Tail(scheduled)
                /\ UNCHANGED <<cmdQueue, blockchain, pacemaker, verifiedVotes>>

-----------------------------------------------------------------------------
(* Votes *)

\* onVote and onVoteContinue at the leader: the vote of r for block b counts unless the
\* leader has all certificates of the block already, and may complete one or both.
onVote(r, b) ==
    LET blk == blockchain[b]
        tooOld == IF blk.slow = 0 THEN blk.fast <= pacemaker.fast ELSE blk.slow <= pacemaker.slow
        votes == verifiedVotes[b] \cup {r}
        fastQC == ~tooOld /\ blk.fast # 0 /\ Cardinality(votes) = fastQuorumSize
        slowQC == ~tooOld /\ blk.slow # 0 /\ Cardinality(votes) = slowQuorumSize
        done == tooOld \/ slowQC \/ (fastQC /\ blk.slow = 0)
    IN  /\ verifiedVotes' = [verifiedVotes EXCEPT ![b] = IF done THEN {} ELSE votes]
        /\ pacemaker' = [pacemaker EXCEPT
              !.fast = IF fastQC THEN blk.fast ELSE @, !.fastHighQCChanged = @ \/ fastQC,
              !.slow = IF slowQC THEN blk.slow ELSE @, !.slowHighQCChanged = @ \/ slowQC]
        /\ scheduled' = IF fastQC \/ slowQC THEN Append(scheduled, 0) ELSE scheduled
        /\ UNCHANGED <<asked, cmdQueue, blockchain>>

\* sendVote for a block with a fast state: the next height is signed when the vote before
\* is out.
SignUsig(r) ==
    LET n == node[r]
    IN  /\ n.lastVoteFast < n.fast
        /\ \E b \in fastAt(n.lastVoteFast + 1) :
              LET blk == blockchain[b] IN
              /\ node' = [node EXCEPT ![r] =
                            [n EXCEPT !.lastVoteFast = @ + 1,
                                      !.lastVoteSlow = IF blk.slow = 0 THEN @ ELSE blk.slow]]
              /\ onVote(r, b)

\* sendVote for a block of the slow chain only.
Sign(r) ==
    \E b \in node[r].signing :
       /\ node' = [node EXCEPT ![r].signing = @ \ {b},
                               ![r].lastVoteSlow = blockchain[b].slow]
       /\ onVote(r, b)

-----------------------------------------------------------------------------
Next ==
    \/ \E c \in Cmds : onRequest(c)
    \/ Scheduled
    \/ \E r \in Nodes :
          FastVerified(r) \/ SlowVerified(r) \/ SignUsig(r) \/ Sign(r)

-----------------------------------------------------------------------------
(* Properties *)

\* propose: no height of a chain is proposed twice, whichever of a request, a fast
\* and a slow certificate beats the pacemaker, in whatever order.
OneBlock ==
    \A h \in 1 .. Len(blockchain) : Cardinality(fastAt(h)) <= 1 /\ Cardinality(slowAt(h)) <= 1

\* propose, fastCommit and slowCommit: when both chains have come to rest the leader
\* has executed every command, and everybody every command with Meta; the dummy blocks
\* suffice, and no certificate of one chain is lost to the other.
ChainExecuted ==
    quiet => /\ node[Primary].executed = asked
             /\ \A r \in Nodes : Meta \cap asked \subseteq node[r].executed

-----------------------------------------------------------------------------
(* The inductive invariant behind OneBlock *)

BlockRecord == [fast : Nat, slow : Nat, cmd : Cmds \cup {NoCmd}, self : BOOLEAN]
Pacemaker == [fast : Nat, slow : Nat, fastHighQCChanged : BOOLEAN, slowHighQCChanged : BOOLEAN,
              lastFastHeightWithCommand : Nat, lastFastHeight : Nat]

\* A replica signs fast blocks by their height and the others one by one.
NodeOK(n) ==
    /\ n = [fast |-> n.fast, slow |-> n.slow, lastVoteFast |-> n.lastVoteFast,
            lastVoteSlow |-> n.lastVoteSlow, bExecSlow |-> n.bExecSlow,
            signing |-> n.signing, executed |-> n.executed]
    /\ n.lastVoteFast \in Nat
    /\ \A b \in n.signing : b \in DOMAIN blockchain /\ blockchain[b].fast = 0

TypeOK ==
    /\ cmdQueue \in Seq(Cmds) /\ blockchain \in Seq(BlockRecord) /\ pacemaker \in Pacemaker
    /\ scheduled \in Seq(Nat) /\ \A i \in DOMAIN scheduled : scheduled[i] <= Len(blockchain)
    /\ node = [r \in Nodes |-> node[r]] /\ \A r \in Nodes : NodeOK(node[r])
    /\ verifiedVotes \in Seq(SUBSET Nodes) /\ Len(verifiedVotes) = Len(blockchain)
    /\ \A b \in DOMAIN verifiedVotes : IsFiniteSet(verifiedVotes[b])

\* A flag that is set says that the chain has no block above its certificate.
Extendable ==
    \A b \in DOMAIN blockchain :
       /\ blockchain[b].fast <= pacemaker.fast + 1 /\ blockchain[b].slow <= pacemaker.slow + 1
       /\ pacemaker.fastHighQCChanged => blockchain[b].fast <= pacemaker.fast
       /\ pacemaker.slowHighQCChanged => blockchain[b].slow <= pacemaker.slow

OneEach ==
    \A a, b \in DOMAIN blockchain :
       /\ blockchain[a].fast = blockchain[b].fast /\ blockchain[a].fast # 0 => a = b
       /\ blockchain[a].slow = blockchain[b].slow /\ blockchain[a].slow # 0 => a = b

\* A replica votes once for a block with a fast state, so that the number of votes passes
\* the fast quorum once, and stays above it until the slow certificate is there.
VotedOnce ==
    \A b \in DOMAIN blockchain :
       blockchain[b].fast # 0 =>
          /\ \A r \in verifiedVotes[b] : node[r].lastVoteFast >= blockchain[b].fast
          /\ blockchain[b].fast <= pacemaker.fast /\ blockchain[b].slow > pacemaker.slow
                => Cardinality(verifiedVotes[b]) >= fastQuorumSize

DuoInv == TypeOK /\ Extendable /\ OneEach /\ VotedOnce
=============================================================================
