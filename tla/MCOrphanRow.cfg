SPECIFICATION Spec
CONSTANTS
    a = a
    b = b
    k = k
    Id = {a, b}
    Key = {k}
    NoKey = NoKey
    NoRow = NoRow
    KeyOf <- SameKey
    Worker = {w1}
    Caller = {c1}
    MaxRetries = 1
    CallerOps = {}
    MaxCrashes = 0
    StoreFails = TRUE
    CanStop = FALSE
INVARIANT RefusedLeavesNoJob
CHECK_DEADLOCK FALSE
