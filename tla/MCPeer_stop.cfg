CONSTANTS
    c1 = c1
    c2 = c2
    c3 = c3
    q1 = q1
    q2 = q2
    q3 = q3
    Commands = {c1, c2}
    Local = {c1}
    SelfSend = {}
    Calls = {q1, q2}
    CmdOf <- TwoCalls
    NumPeers = 1
    MsgCap = 1
    ApplyCap = 1
    SendCap = 1
    MayStop = TRUE
    NoCall = NoCall
SPECIFICATION FairSpec
PROPERTIES EveryCallAnswered StopReturns
CHECK_DEADLOCK FALSE
