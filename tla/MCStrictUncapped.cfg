SPECIFICATION Spec
CONSTANTS
    Job = {j1, j2}
    Worker = {w1, w2}
    MaxRetries = 2
    Out <- OneFile
    Scratch = {}
    Boxes <- StrictBox
    MayGo = {}
    MaxCrashes = 0
INVARIANT StrictNeverUncapped
CHECK_DEADLOCK FALSE
