SPECIFICATION Spec
CONSTANTS
    a = a
    b = b
    k = k
    Id = {a, b}
    Key = {k}
    NoKey = NoKey
    NoRow = NoRow
    KeyOf <- SameKey
    Worker = {w1, w2}
    Caller = {c1, c2}
    MaxRetries = 2
    CallerOps = {"cancel", "ack", "get"}
    MaxCrashes = 1
    StoreFails = TRUE
    CanStop = TRUE
SYMMETRY Symmetry
INVARIANTS AckDurable StoreAgrees ExecutionBound
PROPERTY OutcomeIsFinal
CHECK_DEADLOCK FALSE
