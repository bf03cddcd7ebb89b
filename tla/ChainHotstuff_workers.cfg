CONSTANTS
    N = 4
    F = 1
    Workers = 2
    Commands = {c1}
    Nil = Nil
    Clients = {0, 1, 2, 3}
    MaxHeight = 4
SPECIFICATION Spec
INVARIANT LastCommitted
CHECK_DEADLOCK FALSE
