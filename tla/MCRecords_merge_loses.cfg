SPECIFICATION Spec
CONSTANTS
    Reports <- TwoSections
    MaxReports = 2
    TicksPerSecond = 2
    Half = 4
    Unit = 2
    TimeColumn = "timestamp"
INVARIANTS
    AggregatedIsKept
CHECK_DEADLOCK FALSE
