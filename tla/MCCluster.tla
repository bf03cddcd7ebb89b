----------------------------- MODULE MCCluster -----------------------------
(* Small clusters of the protocols with one log for TLC. *)
EXTENDS ClusterProtocols, TLC

CONSTANTS p0, p1, p2, p3, p4, p5

Three == {p0, p1, p2}
Four == {p0, p1, p2, p3}
Five == Four \cup {p4}
Six == Five \cup {p5}

MCScenario(protocol, members, f, c, crashes, faulty, commands) ==
    [protocol |-> protocol, members |-> members, peers |-> << >>, f |-> f, c |-> c, down |-> {},
     crashes |-> crashes, faulty |-> faulty, commands |-> commands, meta |-> {}, clients |-> {p0},
     answers |-> FALSE]

\* The results of the commands are followed as well.
Answers(s) == [s EXCEPT !.answers = TRUE]

\* Only MirBFT looks at the order of the ids.
Mir(s) == {[s EXCEPT !.peers = peers] : peers \in {<<p0, p1, p2, p3>>, <<p0, p2, p1, p3>>}}

MCScenarios ==
    {MCScenario("sbft", Four, 1, 0, 0, {}, 2),
     MCScenario("sbft", Six, 1, 1, 1, {}, 1),
     MCScenario("sbft", Six, 1, 1, 0, {p3}, 1),
     MCScenario("sbft", Four, 1, 0, 0, {p0}, 1),
     Answers(MCScenario("sbft", Four, 1, 0, 0, {}, 1)),
     MCScenario("sbftslow", Four, 1, 0, 1, {}, 2),
     MCScenario("sbftslow", Four, 1, 0, 0, {p0}, 1),
     Answers(MCScenario("sbftslow", Four, 1, 0, 0, {p3}, 1)),
     MCScenario("linhybster", Three, 1, 0, 1, {}, 2),
     Answers(MCScenario("linhybster", Three, 1, 0, 0, {p1}, 1)),
     Answers(MCScenario("linhybster", Three, 1, 0, 0, {p2}, 1)),
     MCScenario("minbft", Three, 1, 0, 1, {}, 2),
     MCScenario("minbft", Five, 2, 0, 2, {}, 1),
     MCScenario("hybster", Three, 1, 0, 1, {}, 2)}
    \cup {[MCScenario("duobft", Four, 1, 0, 1, {}, 2) EXCEPT !.meta = {c}, !.down = {p3}] : c \in Commands}
    \cup {[MCScenario("duobft", Four, 1, 0, 1, {}, 1) EXCEPT !.meta = meta] : meta \in {{}, Commands}}
    \cup Mir(MCScenario("mirbft", Four, 1, 0, 0, {p0}, 1))
    \cup Mir([MCScenario("mirbft", Four, 1, 0, 0, {}, 2) EXCEPT !.clients = {p0, p1, p2}])

\* Nothing tells the commands apart, nor most of the followers.
MCSymmetry ==
    {a @@ b @@ c : a \in Permutations({p1, p2}), b \in Permutations({p4, p5}),
                   c \in Permutations(Commands)}
=============================================================================
