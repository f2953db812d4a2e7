SPECIFICATION FairSpec
CONSTANTS
    Streams = {s1}
    MaxMsgs = 2
    DataTimeout = 1
    MaxTime = 2
INVARIANTS
    TypeOK
    AckMeansBuffered
    DrainedAtExit
PROPERTIES
    ReportIsOld
    WatcherGoesAway
    ShutdownCompletes
CHECK_DEADLOCK FALSE
