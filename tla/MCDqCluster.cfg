CONSTANTS
    Replicas = {p0, p1, p2, p3}
    Primary = p0
    p0 = p0
    p1 = p1
    p2 = p2
    p3 = p3
    Commands = {c1, c2}
    Nil = Nil
    Scenarios <- MCScenarios
    MaxIndex = 2
SPECIFICATION Spec
SYMMETRY MCSymmetry
INVARIANTS ExecutedOnce AllExecuted DecisionsAgree DecidedIsBroadcast
PROPERTIES ImplementsTotalOrder
CHECK_DEADLOCK FALSE
