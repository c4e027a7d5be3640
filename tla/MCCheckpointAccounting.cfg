CONSTANTS
    Interval = 2
    Threshold = 2
    MaxCount = 3
    NoPending = NoPending
    Identity = {a1, a2, a3}
    MaxBatch = 2
    MaxRecorded = 8
    MaxTime = 4
SPECIFICATION Spec
CHECK_DEADLOCK FALSE
INVARIANTS
    CountExact
    DueExactly
