-------------------------- MODULE ClusterProtocols --------------------------
(* The protocols with one log side by side, and what all of them promise: the scenario
   names the protocol that a behaviour runs. *)
EXTENDS Cluster

S == INSTANCE Sbft
SL == INSTANCE SbftSlow
LH == INSTANCE LinHybster
MB == INSTANCE MinBft
H == INSTANCE Hybster
D == INSTANCE DuoBft
M == INSTANCE MirBft

Next ==
    \/ cfg.protocol = "sbft" /\ S!Next
    \/ cfg.protocol = "sbftslow" /\ SL!Next
    \/ cfg.protocol = "linhybster" /\ LH!Next
    \/ cfg.protocol = "minbft" /\ MB!Next
    \/ cfg.protocol = "hybster" /\ H!Next
    \/ cfg.protocol = "duobft" /\ D!Next
    \/ cfg.protocol = "mirbft" /\ M!Next

Spec == Init /\ [][Next]_vars

-----------------------------------------------------------------------------
(* Properties *)

\* What replica r has executed; in DuoBFT of the commands with a Command.Meta, or of the
\* others, as its two commit rules order them apart.
executedOf(r, meta) == IF cfg.protocol = "duobft" THEN D!chosen(executed[r], meta) ELSE executed[r]

LongestExecuted(meta) ==
    LET longest == CHOOSE r \in Correct :
                      \A s \in Correct : Len(executedOf(s, meta)) <= Len(executedOf(r, meta))
    IN  executedOf(longest, meta)

Plain == INSTANCE TotalOrder WITH
            order <- LongestExecuted(FALSE), delivered <- [r \in Replicas |-> executedOf(r, FALSE)]
WithMeta == INSTANCE TotalOrder WITH
            order <- LongestExecuted(TRUE), delivered <- [r \in Replicas |-> executedOf(r, TRUE)]

\* Whichever replicas crash, whatever a faulty leader sends to whom, and whatever shares
\* and results a faulty follower sends (it proposes nothing), the commands that correct
\* replicas execute form one total order.  DuoBFT promises it for the
\* commands of each of its commit rules, and no more.
ImplementsTotalOrder == Plain!Spec /\ WithMeta!Spec

\* The replicas that propose follow the code: the leader, and in MirBFT all with clients.
ProposersCorrect == {Leader} \cup cfg.clients \subseteq Correct

\* Replicas that follow the code never execute a command twice, not even when a
\* late Prepare of the leader to itself takes an executed instance back.
ExecutedOnce ==
    ProposersCorrect => \A r \in Correct : \A i, j \in DOMAIN executed[r] : executed[r][i] = executed[r][j] => i = j

\* When replicas do nothing worse than crash, no handler stops one: no vote is logged
\* twice, no message contradicts an instance.
NoPanic == cfg.faulty = {} => panicked = {}

\* A client gets its answer only when a correct replica has executed its command,
\* also when faulty replicas claim they have.
AnswerBacked ==
    \A c \in Commands : answered[c] > 0 => \E r \in Correct : c \in Range(executed[r])

\* Every vote, message and callback has been acted on.
quiet ==
    CASE cfg.protocol = "sbft" -> S!quiet
      [] cfg.protocol = "sbftslow" -> SL!quiet
      [] cfg.protocol = "linhybster" -> LH!quiet
      [] cfg.protocol = "minbft" -> MB!quiet
      [] cfg.protocol = "hybster" -> Quiet
      [] cfg.protocol = "duobft" -> D!quiet
      [] cfg.protocol = "mirbft" -> M!quiet

\* The k-th execution of a replica, of command c, had the votes it needs.
certified(k, c) ==
    CASE cfg.protocol = "sbft" -> S!certified(k - 1, c)
      [] cfg.protocol = "sbftslow" -> SL!certified(k - 1, c)
      [] cfg.protocol = "linhybster" -> LH!certified(k - 1, c)
      [] cfg.protocol = "minbft" -> MB!certified(k - 1, c)
      [] cfg.protocol = "hybster" -> H!certified(k - 1, c)
      [] cfg.protocol = "duobft" -> D!certified(c)
      [] cfg.protocol = "mirbft" -> M!certified(k - 1, c)

\* When replicas do nothing worse than crash, no handler stops one, for a vote logged twice
\* or a message that contradicts an instance.  When every message and callback has been
\* handled and a correct leader runs (one share or result of a faulty follower may have
\* stopped it), every replica that still runs has executed every command: no interleaving of
\* shares, certificates, callbacks and crashes leaves an instance behind.  In MirBFT it has
\* executed those that no leader before them withholds its turn from.
AllExecuted ==
    /\ NoPanic
    /\ Leader \in Alive /\ quiet =>
          \A r \in Alive : Range(executed[r]) = IF cfg.protocol = "mirbft" THEN M!deliverable ELSE requested

\* Whatever a replica executes has the votes of a quorum behind it, so that no other
\* quorum can ever vote for something else in its place.
Certified ==
    \A r \in Correct : \A k \in DOMAIN executed[r] : certified(k, executed[r][k])
=============================================================================
