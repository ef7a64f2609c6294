\* A rejection between the read of the states and the append.
SPECIFICATION Spec
CONSTANTS
    Raws <- OneRow
    Kind <- Strict
    TicksPerDay = 1
    Horizon = 0
    Budgets <- RejectBudgets
    Lookback = 1
    ReconWindow = 2
    GatePercent = 101
    WithReports = FALSE
    Overlaps = {"reject"}
PROPERTY RejectionIsFinal
