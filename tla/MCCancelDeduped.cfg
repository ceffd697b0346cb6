SPECIFICATION FairSpec
CONSTANTS
    a = a
    b = b
    k = k
    Id = {a, b}
    Key = {k}
    NoKey = NoKey
    NoRow = NoRow
    KeyOf <- SameKey
    Worker = {w1}
    Caller = {c1}
    MaxRetries = 1
    CallerOps = {"cancel"}
    MaxCrashes = 0
    StoreFails = FALSE
    CanStop = FALSE
PROPERTY TerminalNeverRuns
CHECK_DEADLOCK FALSE
