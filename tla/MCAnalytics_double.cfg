\* The job reads while a row is in both int_ tables.
SPECIFICATION Spec
CONSTANTS
    Raws <- OneRow
    Kind <- Strict
    TicksPerDay = 1
    Horizon = 0
    Budgets <- DoubleBudgets
    Lookback = 1
    ReconWindow = 2
    GatePercent = 101
    WithReports = FALSE
    Overlaps = {"torn"}
INVARIANT EventsAreTransitions
