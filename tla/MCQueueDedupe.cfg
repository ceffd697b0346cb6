SPECIFICATION FairSpec
CONSTANTS
    a = a
    b = b
    k = k
    Id = {a, b}
    Key = {k}
    NoKey = NoKey
    NoRow = NoRow
    KeyOf <- SameKey
    Worker = {w1, w2}
    Caller = {c1}
    MaxRetries = 2
    CallerOps = {"cancel", "ack", "get"}
    MaxCrashes = 1
    StoreFails = FALSE
    CanStop = FALSE
INVARIANTS TypeOK OneExecution OneJobPerKey RefusedLeavesNoJob StoreOnlyIsTerminal ReadCopySettled
PROPERTY AnsweredJobFinishes
CHECK_DEADLOCK FALSE
