SPECIFICATION Spec
CONSTANTS
    d1 = d1
    d2 = d2
    d3 = d3
    a = a
    b = b
    Decision = {d1, d2, d3}
    Revision <- TwoRevisions
    NoRevision = none
    Garbage = garbage
    BufferSize = 2
    Spooling = TRUE
    MaxBatch = 2
    MaxDropStreak = 1
    MaxDropsPerHour = 2
    MaxFaults = 1
    MaxUnrepaired = 1
INVARIANTS LossBound RecordedOnce RecordedWithOwnRevision
PROPERTIES Drains
CHECK_DEADLOCK FALSE
