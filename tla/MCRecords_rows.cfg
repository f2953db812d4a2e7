SPECIFICATION Spec
CONSTANTS
    Reports <- AllReports
    MaxReports = 3
    TicksPerSecond = 2
    Half = 4
    Unit = 2
    TimeColumn = "timestamp"
INVARIANTS
    RowIsOneElement
    RowExplained
    RecordsCounted
    RefusedForCause
    NumbersRecoverable
CHECK_DEADLOCK FALSE
