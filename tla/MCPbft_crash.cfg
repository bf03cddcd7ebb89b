CONSTANTS
    N = 4
    F = 1
    Faulty = {3}
    LeaderID = 0
    Commands = {c1, c2}
    Nil = Nil
    MaxIndex = 2
    MaxView = 0
SPECIFICATION FairSpec
INVARIANTS PrefixOrder NoPanic
PROPERTIES ImplementsTotalOrder AllExecuted
CHECK_DEADLOCK FALSE
