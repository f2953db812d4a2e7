SPECIFICATION FairSpec
CONSTANTS
    Streams = {s1}
    MaxMsgs = 1
    DataTimeout = 1
    MaxTime = 3
PROPERTIES
    SilenceIsReported
CHECK_DEADLOCK FALSE
