CONSTANTS
    N = 4
    F = 1
    Faulty = {0}
    LeaderID = 0
    Commands = {c1, c2}
    Nil = Nil
    MaxIndex = 1
    MaxView = 4
SPECIFICATION Spec
INVARIANTS Inv Agreement CommitHasQuorum
CHECK_DEADLOCK FALSE
CONSTRAINT NoNewView
