--------------------------------- MODULE Rcc ---------------------------------
(***************************************************************************)
(* protocols/rcc: every peer leads a replicator (PBFT or SBFT) of its own, *)
(* and RCC executes one command of each replicator per round.  The         *)
(* replicators are what TotalOrder promises: the replicas execute one      *)
(* sequence of commands for each leader.  An SBFT replicator also passes   *)
(* the leader the answer for a command, a packet marked NoExec, once f + 1 *)
(* replicas have reported the command's result.                            *)
(*                                                                         *)
(* MakeReady ranges over Go maps, so a round is executed in any order.     *)
(***************************************************************************)
EXTENDS Integers, Sequences, FiniteSets, FiniteSetsExt, SequencesExt

CONSTANTS
    Replicas,       \* d.nodes, the leaders of the replicators too
    Load,           \* [Replicas -> Nat], the commands its replicator orders
    MaxFaults       \* f

RccAssumption ==
    /\ IsFiniteSet(Replicas) /\ Replicas # {}
    /\ Load \in [Replicas -> Nat] /\ MaxFaults \in Nat

VARIABLES
    orderedBy,  \* [Replicas -> [Replicas -> Nat]], the commands of a leader that
                \* the replicator at a replica has executed
    pending,    \* [Replicas -> [Replicas -> Seq of packets]], its OrderedCommands
    execPkts,   \* [Replicas -> [Replicas -> Seq of packets]], d.execPkts
    executed    \* [Replicas -> Seq of packets], what MakeReady has returned

rccVars == <<orderedBy, pending, execPkts, executed>>

Packet(l, n, noExec) == [leader |-> l, no |-> n, noExec |-> noExec]

\* The packets of s that are marked NoExec, or those that are not.
Marked(s, noExec) ==
    FlattenSeq([k \in DOMAIN s |-> IF s[k].noExec = noExec THEN <<s[k]>> ELSE << >>])

Init ==
    /\ orderedBy = [r \in Replicas |-> [l \in Replicas |-> 0]]
    /\ pending = [r \in Replicas |-> [l \in Replicas |-> << >>]]
    /\ execPkts = [r \in Replicas |-> [l \in Replicas |-> << >>]]
    /\ executed = [r \in Replicas |-> << >>]

\* The replicator of leader l executes its next command at r.
Order(r, l) ==
    /\ orderedBy[r][l] < Load[l]
    /\ orderedBy' = [orderedBy EXCEPT ![r][l] = @ + 1]
    /\ pending' = [pending EXCEPT ![r][l] = Append(@, Packet(l, orderedBy'[r][l], FALSE))]
    /\ UNCHANGED <<execPkts, executed>>

\* Callback at f + 1 replicas lets the replicator of l answer its n-th command.
Answer(l, n) ==
    LET answer == Packet(l, n, TRUE)
    IN  /\ Cardinality({r \in Replicas : Contains(executed[r], Packet(l, n, FALSE))}) > MaxFaults
        /\ ~Contains(pending[l][l] \o executed[l], answer)
        /\ pending' = [pending EXCEPT ![l][l] = Append(@, answer)]
        /\ UNCHANGED <<orderedBy, execPkts, executed>>

\* Mutant of Take: the answers are kept in turn as well.
TakeAll(r) == [l \in Replicas |-> execPkts[r][l] \o pending[r][l]]

\* The first loop of MakeReady: what each replicator has ordered is put at the
\* end of its list.
Take(r) ==
    [l \in Replicas |->
        execPkts[r][l] \o Marked(pending[r][l], FALSE)]

\* Mutant of Present: a packet is kept back in every list.
PresentTwo(lists) == \A l \in Replicas : Len(lists[l]) > 1

\* Every list has a packet.
Present(lists) == \A l \in Replicas : lists[l] # << >>

\* MakeReady and ClearExecutedCommands in one turn of the run loop, order the
\* order in which it ranges over the maps.  In a round every list has a front.
MakeReady(r, order) ==
    LET lists == Take(r)
        answers == FlattenSeq([k \in DOMAIN order |-> Marked(pending[r][order[k]], TRUE)])
        round == [k \in DOMAIN order |-> Head(lists[order[k]])]
        full == Present(lists)
    IN  /\ full \/ \E l \in Replicas : pending[r][l] # << >>
        /\ execPkts' = [execPkts EXCEPT ![r] =
              [l \in Replicas |-> IF full THEN Tail(lists[l]) ELSE lists[l]]]
        /\ executed' = [executed EXCEPT ![r] = @ \o answers \o (IF full THEN round ELSE << >>)]
        /\ pending' = [pending EXCEPT ![r] = [l \in Replicas |-> << >>]]
        /\ UNCHANGED orderedBy

Step(r) == \E order \in SetToSeqs(Replicas) : MakeReady(r, order)

Next ==
    \/ \E r, l \in Replicas : Order(r, l)
    \/ \E l \in Replicas : \E n \in 1 .. Load[l] : Answer(l, n)
    \/ \E r \in Replicas : Step(r)

-----------------------------------------------------------------------------
(* Properties *)

\* The commands r has executed.
Commands(r) == Marked(executed[r], FALSE)

\* Replicas agree on what a round consists of, and differ at most in the order
\* inside a round: each round has the next command of every replicator, and an
\* answer takes nobody's turn.
RoundsAgree ==
    \A r \in Replicas :
       /\ Len(Commands(r)) % Cardinality(Replicas) = 0
       /\ \A k \in DOMAIN Commands(r) :
             Commands(r)[k].no = 1 + (k - 1) \div Cardinality(Replicas)
       /\ \A j, k \in DOMAIN Commands(r) : Commands(r)[j] = Commands(r)[k] => j = k

\* Every round that can be made up has been executed.
AllRounds ==
    \A r \in Replicas :
       Len(Commands(r)) = Cardinality(Replicas) * Min({Load[l] : l \in Replicas})

-----------------------------------------------------------------------------
(* The inductive invariant *)

Packets == [leader : Replicas, no : Nat, noExec : BOOLEAN]

TypeOK ==
    /\ orderedBy \in [Replicas -> [Replicas -> Nat]]
    /\ pending \in [Replicas -> [Replicas -> Seq(Packets)]]
    /\ execPkts \in [Replicas -> [Replicas -> Seq(Packets)]]
    /\ executed \in [Replicas -> Seq(Packets)]

\* The commands of n rounds, those of a round next to each other.
Executed(cmds, n) ==
    /\ Len(cmds) = n * Cardinality(Replicas)
    /\ \A k \in DOMAIN cmds :
          /\ cmds[k].no \in 1 .. n
          /\ (cmds[k].no - 1) * Cardinality(Replicas) < k /\ k <= cmds[k].no * Cardinality(Replicas)
    /\ \A j, k \in DOMAIN cmds : cmds[j] = cmds[k] => j = k

\* The commands of l from number n + 1 to number m.
Waiting(list, l, n, m) ==
    Len(list) = m - n /\ \A k \in DOMAIN list : list[k] = Packet(l, n + k, FALSE)

\* A replica has executed n rounds, and of each leader the commands that follow wait
\* in the list of the leader or in what its replicator returns next.
RccInv ==
    /\ TypeOK
    /\ \A r \in Replicas : \E n \in Nat :
          /\ Executed(Commands(r), n)
          /\ \A l \in Replicas : Waiting(Take(r)[l], l, n, orderedBy[r][l])
=============================================================================
