SPECIFICATION FairSpec
CONSTANTS
    Conns = {c1, c2}
    DataTimeout = 1
    MaxConns = 1
    DBConnectionUsagePercent = 100
    StalePercent = 50
    MaxRecords = 2
    MaxErrors = 1
INVARIANTS
    ExportedIsSeen
    AlertIsExact
PROPERTIES
    ExportCatchesUp
    SilenceIsNoticed
