CONSTANTS
    Replicas = {p0, p1, p2, p3, p4, p5}
    Leader = p0
    p0 = p0
    p1 = p1
    p2 = p2
    p3 = p3
    p4 = p4
    p5 = p5
    Commands = {c1, c2}
    Nil = Nil
    Scenarios <- MCScenarios
    MaxIndex = 5
SPECIFICATION Spec
SYMMETRY MCSymmetry
INVARIANTS ExecutedOnce  Certified AnswerBacked
PROPERTIES ImplementsTotalOrder
CHECK_DEADLOCK FALSE
