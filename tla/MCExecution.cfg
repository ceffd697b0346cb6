SPECIFICATION Spec
CONSTANTS
    Job = {j1, j2}
    Worker = {w1, w2}
    MaxRetries = 2
    Out <- OneFile
    Scratch = {"notes"}
    Boxes <- AnyBox
    MayGo = {"bwrap", "systemd-run"}
    MaxCrashes = 1
INVARIANTS TypeOK StrictIsolated StrictUncappedBound StatusCovers PinnedRunsVetted AnswerStands
SYMMETRY Symmetry
CHECK_DEADLOCK FALSE
