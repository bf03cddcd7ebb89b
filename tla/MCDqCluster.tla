---------------------------- MODULE MCDqCluster ----------------------------
(* Small clusters of the protocols that spread commands and order them in two steps, for
   TLC; the scenario names the protocol that a behaviour runs. *)
EXTENDS DqCluster

X == INSTANCE SbftX
D == INSTANCE Destiny
SL == INSTANCE DqSbftSlow
H == INSTANCE HybsterX

VARIABLES poSummary, summaries, hash, lastHash

primeVars == <<poSummary, summaries, hash, lastHash>>

P == INSTANCE Prime

VARIABLES rbs, started, rs, cons

dispelVars == <<rbs, started, rs, cons>>

B == INSTANCE Dispel

CONSTANTS p0, p1, p2, p3

Three == {p0, p1, p2}
Four == {p0, p1, p2, p3}

MCScenario(protocol, members, f, oBatchSize, clients, commands, down, crashes) ==
    [protocol |-> protocol, members |-> members, peers |-> << >>, f |-> f, ff |-> 0,
     oBatchSize |-> oBatchSize,
     clients |-> clients, commands |-> commands, down |-> down, crashes |-> crashes,
     rounds |-> 0, done |-> {}, late |-> {}]

MCPrime(clients, commands) ==
    [MCScenario("prime", Four, 1, 1, clients, commands, {p3}, 1) EXCEPT !.peers = <<p0, p1, p2, p3>>]

\* Prime clusters that start in the middle; in the second one a replica comes late.
Preordered == MCPrime({p1, p2}, 2)
Late == [MCPrime({p1}, 1) EXCEPT !.down = {}, !.crashes = 0]

\* One slot of a Dispel epoch, from the beginning or from the start of the consensus.
MCSlot(rounds, down, done, late) ==
    [MCScenario("dispel", Four, 1, 1, {}, 0, down, 0) EXCEPT
        !.rounds = rounds, !.done = done, !.late = late]

MCScenarios ==
    {MCSlot(3, {p3}, {}, Four),
     MCSlot(2, {}, {p2, p3}, {p1}),
     MCSlot(2, {}, {p1, p2, p3}, {p0}),
     MCScenario("sbftx", Four, 1, 1, {p1}, 1, {}, 0),
     MCScenario("destiny", Three, 1, 1, {p1}, 1, {}, 1),
     MCScenario("destiny", Three, 1, 1, {p0}, 1, {}, 1),
     MCScenario("destiny", Three, 1, 1, {p0, p1}, 2, {p2}, 1),
     MCScenario("destiny", Three, 1, 2, {p0, p1}, 2, {p2}, 1),
     MCScenario("dqsbftslow", Four, 1, 1, {p1}, 1, {}, 1),
     MCScenario("hybsterx", Three, 1, 1, {p0, p1}, 2, {}, 1),
     MCScenario("hybsterx", Three, 1, 2, {p1, p2}, 2, {}, 0),
     MCPrime({p1}, 1),
     Preordered, Late}

\* The followers of a Prime cluster have pre-ordered a command of each, and the primary has
\* their summaries; it has both commands itself, and no acknowledgement has reached it.
PreorderedInit ==
    LET ones == [q \in cfg.clients |-> 1]
        zeros == [q \in cfg.clients |-> 0]
    IN  /\ cfg = Preordered
        /\ requested = Commands
        /\ index = [r \in Replicas |-> IF r \in cfg.clients THEN 1 ELSE 0]
        /\ oindex = 0 /\ cReqBuffer = << >>
        /\ \E of \in Bijection(cfg.clients, Commands) :
              log = [r \in Replicas |->
                 IF r \in cfg.down THEN << >>
                 ELSE [id \in {instanceID(q, 0) : q \in cfg.clients} |->
                          P!makeInstance(IF r = Primary THEN "PreOrder" ELSE "PreOrderAck", of[id.owner])]]
        /\ chan = [r \in Replicas |-> [q \in Replicas |-> << >>]]
        /\ jobs = [r \in Replicas |-> EmptyBag]
        /\ oexecIdx = [r \in Replicas |-> 0] /\ executed = [r \in Replicas |-> << >>]
        /\ crashed = cfg.down /\ panicked = {}
        /\ poSummary = [r \in Replicas |-> IF r \in cfg.clients THEN ones ELSE zeros]
        /\ summaries = poSummary /\ hash = summaries
        /\ lastHash = [r \in Replicas |-> zeros]

\* Three replicas of a Prime cluster have pre-ordered a command of p1's and prepared the
\* matrix that covers it; p3 has heard of nothing yet, neither of the command nor of the
\* matrix.
LateInit ==
    LET early == Replicas \ {p3}
        mat == [r \in Replicas |-> IF r = Primary THEN Nil ELSE poSummary[r]]
        sent == P!resolve(mat, poSummary[Primary])
    IN  /\ cfg = Late
        /\ index = [r \in Replicas |-> IF r = p1 THEN 1 ELSE 0]
        /\ oindex = 1 /\ cReqBuffer = << >>
        /\ poSummary = [r \in Replicas |-> (p1 :> IF r \in early THEN 1 ELSE 0)]
        /\ summaries = mat /\ hash = sent /\ lastHash = sent
        /\ \E c \in Commands :
              /\ requested = {c}
              /\ log = [r \in Replicas |->
                    IF r \in early
                    THEN (instanceID(p1, 0) :> P!makeInstance("PreOrderAck", c)) @@
                         (batchID(0) :> [status |-> "Prepared", val |-> sent,
                                         command |-> IF r = Primary THEN mat ELSE sent])
                    ELSE << >>]
        /\ chan = [r \in Replicas |-> [q \in Replicas |-> << >>]]
        /\ jobs = [r \in Replicas |-> EmptyBag]
        /\ oexecIdx = [r \in Replicas |-> 0] /\ executed = [r \in Replicas |-> << >>]
        /\ crashed = {} /\ panicked = {}

MCInit ==
    /\ \/ PreorderedInit
       \/ LateInit
       \/ P!PrimeInit /\ cfg \notin {Preordered, Late}
    /\ IF cfg.done # {} THEN B!StartedInit ELSE B!DispelInit

\* What the other protocols keep, and Dispel does not.
others == <<requested, index, oindex, cReqBuffer, log, chan, jobs, oexecIdx, executed,
            crashed, panicked>>

Next ==
    \/ cfg.protocol = "sbftx" /\ X!Next /\ UNCHANGED <<primeVars, dispelVars>>
    \/ cfg.protocol = "destiny" /\ D!Next /\ UNCHANGED <<primeVars, dispelVars>>
    \/ cfg.protocol = "dqsbftslow" /\ SL!Next /\ UNCHANGED <<primeVars, dispelVars>>
    \/ cfg.protocol = "hybsterx" /\ H!Next /\ UNCHANGED <<primeVars, dispelVars>>
    \/ cfg.protocol = "prime" /\ P!Next /\ UNCHANGED dispelVars
    \/ cfg.protocol = "dispel" /\ B!Next /\ UNCHANGED <<others, primeVars>>

Spec == MCInit /\ [][Next]_<<vars, primeVars, dispelVars>>

\* Every vote, message and callback has been acted on.
quiet ==
    CASE cfg.protocol = "sbftx" -> X!quiet
      [] cfg.protocol = "destiny" -> D!quiet
      [] cfg.protocol = "dqsbftslow" -> SL!quiet
      [] cfg.protocol = "hybsterx" -> H!quiet
      [] cfg.protocol = "prime" -> P!quiet
      [] cfg.protocol = "dispel" -> FALSE

\* No handler stops a replica.  When every message and callback has been handled, every replica that
\* runs has executed every command: whichever of an instance, the batch that lists it
\* and the batch before is committed last, it is the one that starts the execution.
AllExecuted == NoPanic /\ (quiet => \A r \in Alive : Range(executed[r]) = requested)

\* The consensus of Dispel on what an epoch contains.
DecisionsAgree == cfg.protocol = "dispel" => B!DecisionsAgree
DecidedIsBroadcast == cfg.protocol = "dispel" => B!DecidedIsBroadcast

\* Nothing tells the commands apart, nor p2 and p3 (a state with both exchanged is one of
\* the scenario with both exchanged, and the properties name no replica but the primary).
MCSymmetry == Permutations(Commands) \cup Permutations({p2, p3})
=============================================================================
