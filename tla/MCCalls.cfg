SPECIFICATION CallsSpec
CONSTANTS
    a = a
    b = b
    Id = {a, b}
    Key = {}
    NoKey = NoKey
    NoRow = NoRow
    KeyOf <- NoKeys
    Worker = {w1}
    Caller = {c1}
    MaxRetries = 2
    CallerOps = {"ack"}
    MaxCrashes = 1
    StoreFails = FALSE
    CanStop = FALSE
    Items <- Two
INVARIANTS BatchAnswerNames ToldStands
PROPERTIES WaitIsAnswered InboxDrains
CHECK_DEADLOCK FALSE
