CONSTANTS
    c1 = c1
    c2 = c2
    c3 = c3
    q1 = q1
    q2 = q2
    q3 = q3
    Commands = {c1}
    Local = {c1}
    SelfSend = {}
    Calls = {q1}
    CmdOf <- OneCall
    NumPeers = 1
    MsgCap = 1
    ApplyCap = 1
    SendCap = 1
    MayStop = TRUE
    NoCall = NoCall
SPECIFICATION Spec
INVARIANTS NoPanic
CHECK_DEADLOCK FALSE
