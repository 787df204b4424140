CONSTANTS
    r1 = r1  r2 = r2  w1 = w1  w2 = w2  a = a  b = b
    Replica = {r1, r2}
    Worker = {w1, w2}
    Home <- TwoReplicaHome
    NoWorker = NoWorker
    Policy = {p1}
    Text = {a, b}
    NoText = NoText
    Unrecorded = Unrecorded
    AnyTag = AnyTag
    Collides <- BreaksSecond
    MaxSeq = 2
    Rounds = 2
    MaxFaults = 1
SPECIFICATION Spec
INVARIANTS  EnforcedWasRecorded AckedWriteEnforced
PROPERTIES WritesReplaceWhatTheyRead
CHECK_DEADLOCK FALSE
