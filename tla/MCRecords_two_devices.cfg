SPECIFICATION Spec
CONSTANTS
    Reports <- TwoDevices
    MaxReports = 2
    TicksPerSecond = 2
    Half = 4
    Unit = 2
    TimeColumn = "timestamp"
INVARIANTS
    RowIsOneDevice
CHECK_DEADLOCK FALSE
