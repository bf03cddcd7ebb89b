CONSTANTS
    N = 4
    F = 1
    Workers = 1
    Commands = {c1}
    Nil = Nil
    Clients = {2}
    MaxHeight = 4
    Nodes = {n0, n1, n2}
    Primary = n0
    MaxFaults = 1
    Cmds = {d1, d2}
    Meta = {d1}
    NoCmd = NoCmd
    RequestHeight = 1
SPECIFICATION ChainsSpec
SYMMETRY MCSymmetry
INVARIANTS LastCommitted OnePerHeight NothingStuck ChainExecuted
CHECK_DEADLOCK FALSE
