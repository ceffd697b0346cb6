SPECIFICATION FairSpec
CONSTANTS
    Job = {j1, j2, j3}
    Resumed = {j3}
    Worker = {w1}
    MaxPending = 1
    ChanCap = 1
    MaxRetries = 2
    NoJob = NoJob
PROPERTIES HeldJobFinishes StopReturns
CHECK_DEADLOCK FALSE
