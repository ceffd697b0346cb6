SPECIFICATION Spec
CONSTANTS
    Job = {j1}
    Worker = {w1}
    MaxRetries = 2
    Out <- OneFile
    Scratch = {}
    Boxes <- LaxBox
    MayGo = {"bwrap"}
    MaxCrashes = 0
INVARIANT StatusInForce
CHECK_DEADLOCK FALSE
