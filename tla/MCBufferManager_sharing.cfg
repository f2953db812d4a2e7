SPECIFICATION Spec
CONSTANTS
    r1 = r1  r2 = r2  r3 = r3
    k1 = k1  k2 = k2  k3 = k3
    c1 = c1  c2 = c2
    w1 = w1  w2 = w2
    g1 = g1
    Timer = timer
    Stopper = stopper
    Recs = {r1, r2, r3}
    Keys <- TwoKeys
    KeyOf <- KeyOfTwo
    ShardOf <- ShardOfTwo
    NumShards = 2
    Clients = {c1, c2}
    Writers = {w1}
    Spawned = {g1}
    QueueCap = 1
    MaxBatchSize = 1
    RetryAttempts = 1
    FlushThreshold = 2
    Aggregates = TRUE
    Env = {"error"}
INVARIANTS
    TypeOK
    SingleCustody
    ThresholdHonoured
SYMMETRY Symmetry
