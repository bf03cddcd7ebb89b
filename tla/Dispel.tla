------------------------------- MODULE Dispel -------------------------------
(***************************************************************************)
(* protocols/dispel: one slot of an epoch.  The command of the proposer is *)
(* broadcast reliably (rb.go), and a binary consensus (dbft.go) decides    *)
(* whether the epoch contains it.                                          *)
(*                                                                         *)
(* As in Cluster, what a replica has sent is read off its state, and a     *)
(* quorum is any set of messages that have been sent when the handler runs *)
(* that tests it.  The other slots of the epoch appear by what they cause  *)
(* here: consensus starts at a replica once enough slots are broadcast.    *)
(* A replica that crashes is one that takes no more steps, which every     *)
(* replica here may do at any moment; the panic on an Estimate or Aux for  *)
(* an epoch that a replica has not heard of (dbft.go) ends it like that,   *)
(* and a replica that goes on instead only adds to what is checked.        *)
(***************************************************************************)
EXTENDS Integers, FiniteSets, FiniteSetsExt

CONSTANTS Replicas, Primary     \* the replicas, and the proposer of the slot

VARIABLES
    cfg,        \* the scenario
    rbs,        \* [Replicas -> RBState.Status of the slot]
    started,    \* replicas that have started the consensus
    rs,         \* [Replicas -> [rounds -> dbftRound]]
    cons        \* [Replicas -> dbft]

dispelVars == <<rbs, started, rs, cons>>

Values == {0, 1}
Undecided == -1
Rounds == 1 .. cfg.rounds
Alive == cfg.members \ cfg.down
Quorum == 2 * cfg.f + 1

\* Status of the broadcast at a replica; each but the first stands for a message sent.
Unknown == 0
Received == 1
Echoed == 2
Readied == 3

\* A round.  bvb are the values whose Estimate has been sent, own those of them that
\* the sender counts, bvbDone those that have reached a quorum; aux is what was sent
\* as Aux, if anything, and auxN how many Aux the replica has last looked at.
makeRound == [est |-> 0, binValues |-> {}, bvb |-> {}, own |-> {}, bvbDone |-> {},
              coordStepDone |-> FALSE, aux |-> {}, auxN |-> 0]

makeCons == [decided |-> Undecided, decidedRound |-> 0, halt |-> FALSE, restartOnBinValues |-> FALSE]

-----------------------------------------------------------------------------
(* The reliable broadcast *)

sent(status) == {q \in cfg.members : rbs[q] >= status}

\* onRequest at the proposer, and onRBSend at the others.
onRBSend(r) ==
    /\ r \in Alive /\ rbs[r] = Unknown
    /\ r # Primary => rbs[Primary] # Unknown
    /\ rbs' = [rbs EXCEPT ![r] = Received]
    /\ UNCHANGED <<cfg, started, rs, cons>>

\* The end of onRBSend or onRBEcho, with a quorum of Echoes.
onRBEcho(r) ==
    /\ r \in Alive /\ rbs[r] = Received
    /\ Cardinality(sent(Received)) >= Quorum
    /\ rbs' = [rbs EXCEPT ![r] = Echoed]
    /\ UNCHANGED <<cfg, started, rs, cons>>

-----------------------------------------------------------------------------
(* The binary consensus *)

\* binaryPropose for the rounds R of a replica; -1 is a 1 that the reliable broadcast
\* has established, and goes out as Aux at once.
binaryPropose(R, halt, k, est) ==
    IF halt \/ k \notin Rounds THEN R
    ELSE [R EXCEPT ![k] =
            IF est = -1
            THEN [@ EXCEPT !.est = 1, !.binValues = @ \cup {1}, !.coordStepDone = TRUE,
                           !.aux = IF @ = {} THEN R[k].binValues \cup {1} ELSE @]
            ELSE [@ EXCEPT !.est = est, !.bvb = @ \cup {est},
                           !.own = IF est \in R[k].bvb THEN @ ELSE @ \cup {est}]]

\* Enough slots of the epoch are broadcast: the consensus on this one starts.
tryStartConsensusEarly(r) ==
    /\ r \in Alive \ started
    /\ started' = started \cup {r}
    /\ rs' = [rs EXCEPT ![r] = binaryPropose(@, cons[r].halt, 1, IF rbs[r] >= Received THEN -1 ELSE 0)]
    /\ UNCHANGED <<cfg, rbs, cons>>
tryStartConsensus(r) ==
    /\ r \in Alive \ started
    /\ started' = started \cup {r}
    /\ rs' = [rs EXCEPT ![r] = binaryPropose(@, cons[r].halt, 1, IF rbs[r] = Readied THEN -1 ELSE 0)]
    /\ UNCHANGED <<cfg, rbs, cons>>

\* The end of the broadcast, with a quorum of Readies; onRBDone gives a consensus that
\* has started its 1, which in a scenario happens only at the replicas in late.
onRBReady(r) ==
    /\ r \in Alive /\ rbs[r] = Echoed
    /\ Cardinality(sent(Echoed)) >= Quorum
    /\ r \in started => r \in cfg.late
    /\ rbs' = [rbs EXCEPT ![r] = Readied]
    /\ rs' = [rs EXCEPT ![r] = IF r \in started THEN binaryPropose(@, cons[r].halt, 1, -1) ELSE @]
    /\ UNCHANGED <<cfg, started, cons>>

\* The Estimates for v in round k that r can have counted.
bvbEstimates(r, k, v) ==
    Cardinality({q \in cfg.members \ {r} : v \in rs[q][k].bvb}) + IF v \in rs[r][k].own THEN 1 ELSE 0

\* onBVBroadcast with the Estimate that makes f + 1: passed on, and not counted.  The
\* code tests count == f + 1 when it counts the Estimate; here the handler may also run
\* when more have been sent, which are those that are not counted yet.
onBVBroadcast(r, k, v) ==
    /\ r \in Alive /\ v \notin rs[r][k].bvb
    /\ bvbEstimates(r, k, v) >= cfg.f + 1
    /\ rs' = [rs EXCEPT ![r][k].bvb = @ \cup {v}]
    /\ UNCHANGED <<cfg, rbs, started, cons>>

\* onBVBroadcast with the Estimate that makes 2f + 1.  What the coordinator sends has no
\* effect: it is looked up in binValues as a message, and those are numbers.
afterBVBroadcast(r, k, v) ==
    LET R == [rs[r] EXCEPT ![k].binValues = @ \cup {v}, ![k].bvbDone = @ \cup {v},
                           ![k].coordStepDone = TRUE]
        restarts == cons[r].restartOnBinValues /\ R[k].binValues = Values
    IN  /\ r \in Alive /\ v \in rs[r][k].bvb \ rs[r][k].bvbDone
        /\ bvbEstimates(r, k, v) >= Quorum
        /\ rs' = [rs EXCEPT ![r] = IF restarts THEN binaryPropose(R, cons[r].halt, k + 1, R[k].est) ELSE R]
        /\ cons' = [cons EXCEPT ![r].restartOnBinValues = @ /\ ~restarts]
        /\ UNCHANGED <<cfg, rbs, started>>

\* The timer that the coordinator step has set.
onCoordTimerExpired(r, k) ==
    /\ r \in Alive /\ rs[r][k].coordStepDone /\ rs[r][k].aux = {}
    /\ rs' = [rs EXCEPT ![r][k].aux = rs[r][k].binValues]
    /\ UNCHANGED <<cfg, rbs, started, cons>>

auxSenders(k) == {q \in cfg.members : rs[q][k].aux # {}}

\* The estimate that round k ends with: the only value, or else the round's own.
nextEstOther(k, values) == IF Cardinality(values) = 1 THEN CHOOSE v \in values : TRUE ELSE 1 - (k % 2)
nextEst(k, values) == IF Cardinality(values) = 1 THEN CHOOSE v \in values : TRUE ELSE k % 2

\* The round ends with these values: r decides, halts, or goes on to the next one.
endRound(r, k, R, values) ==
    LET est == nextEst(k, values)
        decides == values = {k % 2} /\ cons[r].decided = Undecided
        C == IF decides THEN [cons[r] EXCEPT !.decided = est, !.decidedRound = k] ELSE cons[r]
        in(round) == C.decided # Undecided /\ C.decidedRound = round
        waits == in(k) /\ R[k].binValues # Values
        E == [R EXCEPT ![k].est = est]
    IN  /\ rs' = [rs EXCEPT ![r] = IF waits \/ in(k - 2) THEN E ELSE binaryPropose(E, C.halt, k + 1, est)]
        /\ cons' = [cons EXCEPT ![r] = [C EXCEPT !.restartOnBinValues = @ \/ waits, !.halt = @ \/ in(k - 2)]]

\* onAuxMessage, once r has sent its own Aux: the round ends with 2f + 1 of them, and ends
\* again with each one after that.  Values not in binValues yet are not looked at again
\* when they get there.  (Which Aux were the first 2f + 1 is of no interest after that:
\* with n = 3f + 1 = 4 the next one completes the set.)
onAuxMessage(r, k) ==
    LET n == IF rs[r][k].auxN = 0 THEN Quorum ELSE rs[r][k].auxN + 1
        R == [rs[r] EXCEPT ![k].auxN = n]
    IN  /\ r \in Alive /\ rs[r][k].aux # {}
        /\ \E values \in {UNION {rs[q][k].aux : q \in Q} : Q \in kSubset(n, auxSenders(k))} :
              IF values \subseteq R[k].binValues
              THEN endRound(r, k, R, values)
              ELSE rs' = [rs EXCEPT ![r] = R] /\ UNCHANGED cons
        /\ UNCHANGED <<cfg, rbs, started>>

-----------------------------------------------------------------------------
\* The start of the program.
DispelInit ==
    /\ rbs = [r \in Replicas |-> Unknown]
    /\ started = {}
    /\ rs = [r \in Replicas |-> [k \in Rounds |-> makeRound]]
    /\ cons = [r \in Replicas |-> makeCons]

\* Every replica has just started the consensus, with the broadcast complete at some of
\* them and nearly complete at the others.
StartedInit ==
    /\ rbs = [r \in Replicas |-> IF r \in cfg.done THEN Readied ELSE Echoed]
    /\ started = cfg.members
    /\ rs = [r \in Replicas |-> binaryPropose([k \in Rounds |-> makeRound], FALSE, 1,
                                              IF rbs[r] = Readied THEN -1 ELSE 0)]
    /\ cons = [r \in Replicas |-> makeCons]

Next ==
    \E r \in cfg.members :
       \/ onRBSend(r) \/ onRBEcho(r) \/ onRBReady(r) \/ tryStartConsensus(r)
       \/ \E k \in Rounds :
             \/ \E v \in Values : onBVBroadcast(r, k, v) \/ afterBVBroadcast(r, k, v)
             \/ onCoordTimerExpired(r, k)
             \/ onAuxMessage(r, k)

-----------------------------------------------------------------------------
(* Properties *)

\* Replicas that decide in the first two rounds decide the same, whichever three of the
\* four Aux each of them ends a round with, and although a round may end twice; when only
\* 2f + 1 replicas run, no round does, and the same holds for every round.
DecisionsAgree ==
    \A p, q \in cfg.members :
       LET decidedIn == {cons[p].decidedRound, cons[q].decidedRound}
       IN  decidedIn \subseteq (IF cfg.down = {} THEN {1, 2} ELSE Rounds) => cons[p].decided = cons[q].decided

\* An epoch contains a command only if a quorum has echoed it, so that the broadcast can
\* complete wherever the command has arrived and exec need not wait for ever.
DecidedIsBroadcast ==
    (\E r \in cfg.members : cons[r].decided = 1) => Cardinality(sent(Echoed)) >= Quorum
=============================================================================
