SPECIFICATION Spec
CONSTANTS
    g1 = g1  g2 = g2
    Parsers = {g1, g2}
    Messages <- TwoDevices
INVARIANTS
    ResultDependsOnMessageOnly
    ReportsKept
    OwnMetricsOnly
    PoolsExclusive
