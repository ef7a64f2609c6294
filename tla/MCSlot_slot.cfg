\* Units of 15 s and of 12 orders: 252 orders at 48 a minute, of which 60 are let through.
SPECIFICATION Spec
CONSTANTS
    Orders = 21
    Pace = 1
    MaxRetries = 2
    Slept <- TwoSleeps
    Patience = 4
    VerifyWait = 4
    RequiredPct = 90
    ExecutionTimeout = 80
    Limit = 5
    Window = 4
    FollowedOrder = 21
    Budgets <- SlotBudgets
    Grace = 4
    Stale = 40
    Interval = 20
    Margin = 16
    Faults = 1
    CheckOffset = 120
INVARIANTS
    TypeOK
    HealedInTime
    WatchIsBinary
    SlotIsNotDoubled
    OutageIsRed
    OnlyStallsDropOrders
CHECK_DEADLOCK FALSE
