\* Three days of two instants; one run fails, one transaction commits after midnight.
SPECIFICATION Spec
CONSTANTS
    Raws <- TwoRows
    Kind <- StrictAndClean
    TicksPerDay = 2
    Horizon = 4
    Budgets <- WindowBudgets
    Lookback = 1
    ReconWindow = 2
    GatePercent = 60
    WithReports = TRUE
    Overlaps = {}
INVARIANTS
    NothingIsPassedOver
    ShortGapLosesNothing
    ReportMissesOnlyGaps
PROPERTIES
    OverwriteKeepsRows
