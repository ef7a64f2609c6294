\* Every sampled payload, judged and judged again by three rule sets on two days.
SPECIFICATION Spec
CONSTANTS
    Dotted <- DottedNames
    Orders <- SampledOrders
    Versions = {"v2", "v3", "v4"}
    LastDay = 101
INVARIANTS
    AcceptedIsBuilt
    OnlyWallsStopAnOrder
    NothingIsLost
    EveryBadNumberIsMarked
    VerdictIsReproducible
    PromotionIsEarned
    InjectionsAreReported
CHECK_DEADLOCK FALSE
