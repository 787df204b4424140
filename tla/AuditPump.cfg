CONSTANTS
    r1 = r1  r2 = r2  w1 = w1  w2 = w2
    Replica = {r1, r2}
    NoReplica = NoReplica
    Zombie = Zombie
    ElectionEnabled = TRUE
    MaxFaults = 1
    Worker = {w1, w2}
    Home <- TwoReplicaHome
    NoWorker = NoWorker
    NoKey = NoKey
    Key = {}
    Digest = {}
    InitKeyed = FALSE
    MaxSeq = 2
    BatchSize = 1
SPECIFICATION PumpSpec
INVARIANTS WatermarkCovered
PROPERTIES EveryRowForwarded SomeReplicaLeads
CHECK_DEADLOCK FALSE
