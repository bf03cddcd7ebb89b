CONSTANTS
    Workers = {w1, w2}
    Buckets = {b1, b2}
    JobCap = 1
    CallbackCap = 1
    MaxJobs = 5
    NoJob = NoJob
    NoWorker = NoWorker
    Elems = {e1, e2, e3, e4}
    Cap = 2
    Threshold = 2
    NoElem = NoElem
    Self = 0
    Peers = {0, 1, 2}
    Batches <- ThreeBatches
    BufCap = 1
    MaxBreaks = 1
    r1 = r1
    r2 = r2
    Replicas = {r1, r2}
    Load <- UnevenLoad
    MaxFaults = 1
SPECIFICATION FairSpec
INVARIANTS BufferOnce Fifo RoundsAgree
PROPERTIES ImplementsAsyncJobs AllRun BufferDrains SendReturns Delivered RoundsExecuted
CHECK_DEADLOCK FALSE
