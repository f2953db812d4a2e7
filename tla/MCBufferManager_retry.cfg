SPECIFICATION Spec
CONSTANTS
    r1 = r1  r2 = r2  r3 = r3
    k1 = k1  k2 = k2  k3 = k3
    c1 = c1  c2 = c2
    w1 = w1  w2 = w2
    g1 = g1
    Timer = timer
    Stopper = stopper
    Recs = {r1, r2, r3}
    Keys <- TwoKeys
    KeyOf <- KeyOfTwo
    ShardOf <- ShardOfOne
    NumShards = 1
    Clients = {c1}
    Writers = {w1}
    Spawned = {}
    QueueCap = 1
    MaxBatchSize = 1
    RetryAttempts = 2
    FlushThreshold = 5
    Aggregates = FALSE
    Env = {"lostReply", "timeout"}
INVARIANTS
    NothingVanishes
    NoDuplicateWithoutDoubt
    CopiesBounded
    WrittenIsStored
PROPERTIES
    ImplementsDelivery
SYMMETRY SameKey
