SPECIFICATION Spec
CONSTANTS
    Job = {j1, j2, j3, j4}
    Resumed = {j4}
    Worker = {w1, w2}
    MaxPending = 2
    ChanCap = 1
    MaxRetries = 2
    NoJob = NoJob
SYMMETRY Symmetry
INVARIANTS TypeOK SlotsAccounted AdmissionCap OneHolder NoLostWakeup
PROPERTIES NothingDropped LineSpec
CHECK_DEADLOCK FALSE
