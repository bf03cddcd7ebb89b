CONSTANTS
    N = 4
    F = 1
    Faulty = {3}
    Commands = {c1, c2}
    Nil = Nil
    Scenarios <- MCScenarios
    MaxIndex = 1
    MaxOIndex = 2
SPECIFICATION Spec
SYMMETRY MCSymmetry
INVARIANTS LogsAgree DqInv ExecutedOnce AllExecuted
PROPERTIES ImplementsTotalOrder
CHECK_DEADLOCK FALSE
