CONSTANTS
    c1 = c1
    c2 = c2
    c3 = c3
    q1 = q1
    q2 = q2
    q3 = q3
    Commands = {c1, c2, c3}
    Local = {c1, c2}
    SelfSend = {c2}
    Calls = {q1, q2, q3}
    CmdOf <- WithRetry
    NumPeers = 1
    MsgCap = 1
    ApplyCap = 1
    SendCap = 1
    MayStop = FALSE
    NoCall = NoCall
SPECIFICATION Spec
INVARIANTS ApplyOrder NoMessageLost AnsweredAfterApplied
