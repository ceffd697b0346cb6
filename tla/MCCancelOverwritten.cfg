SPECIFICATION FairSpec
CONSTANTS
    a = a
    b = b
    k = k
    Id = {a}
    Key = {k}
    NoKey = NoKey
    NoRow = NoRow
    KeyOf <- NoKeys
    Worker = {w1}
    Caller = {c1}
    MaxRetries = 2
    CallerOps = {"cancel"}
    MaxCrashes = 0
    StoreFails = FALSE
    CanStop = FALSE
PROPERTY CanceledIsFinal
CHECK_DEADLOCK FALSE
