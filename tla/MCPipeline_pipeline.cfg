SPECIFICATION FairSpec
CONSTANTS
    Streams = {s1}
    MaxMsgs = 1
    DataTimeout = 1
    MaxTime = 0
    Keys <- Records
    KeyOf <- KeyOfMessage
    ShardOf <- LastShard
    NumShards = 1
    Writers = {w1}
    Spawned = {g1}
    Timer = timer
    Stopper = stopper
    QueueCap = 1
    MaxBatchSize = 1
    RetryAttempts = 1
    FlushThreshold = 1
    Aggregates = TRUE
    Env = {"error", "timeout", "stop"}
INVARIANTS
    AnsweredIsHeld
    ExitLeavesLateRecords
PROPERTIES
    AnsweredIsDelivered
    ShutdownEnds
CHECK_DEADLOCK FALSE
