\* Two days and windows of today only: deployments that loosen and tighten, repeated
\* re-evaluations, or a rejection and a job that fails.
SPECIFICATION Spec
CONSTANTS
    Raws <- TwoRows
    Kind <- StrictAndNormalised
    TicksPerDay = 1
    Horizon = 1
    Budgets <- QualityBudgets
    Lookback = 0
    ReconWindow = 1
    GatePercent = 101
    WithReports = FALSE
    Overlaps = {}
INVARIANTS
    TypeOK
    EventsAreTransitions
    GoldHasItsValues
    SplitIsPartition
PROPERTIES
    LifecycleSpec
    GoldFollowsStates
