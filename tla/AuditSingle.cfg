CONSTANTS
    r1 = r1  r2 = r2  w1 = w1  w2 = w2
    Replica = {r1}
    NoReplica = NoReplica
    Zombie = Zombie
    ElectionEnabled = FALSE
    MaxFaults = 2
    Worker = {w1, w2}
    Home <- OneReplicaHome
    NoWorker = NoWorker
    NoKey = NoKey
    Key = {k1}
    Digest = {d1, d2}
    InitKeyed = FALSE
    MaxSeq = 4
SPECIFICATION FairSpec
INVARIANTS ChainLinear KeyedReplicaVerifies
PROPERTIES  ImplementsHashChain
CHECK_DEADLOCK FALSE
