CONSTANTS
    r1 = r1  r2 = r2  w1 = w1  w2 = w2
    Replica = {r1, r2}
    NoReplica = NoReplica
    Zombie = Zombie
    ElectionEnabled = TRUE
    MaxFaults = 2
    Worker = {w1, w2}
    Home <- TwoReplicaHome
    NoWorker = NoWorker
    NoKey = NoKey
    Key = {}
    Digest = {d1}
    InitKeyed = TRUE
    MaxSeq = 3
SPECIFICATION Spec
CHECK_DEADLOCK FALSE
INVARIANT ChainLinear
