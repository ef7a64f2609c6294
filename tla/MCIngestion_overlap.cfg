\* Two scans overlap because Redis failed when the second took the lock.
SPECIFICATION Spec
CONSTANTS
    Raws <- OneRaw
    OrderOf <- OneOrder
    PayloadOf <- OneClean
    FaultBudgets <- LockErrorBudgets
    Attempts = 1
    MaxMsgs = 1
    Workers = {w1, w2}
    Scans = {s1, s2}
    BatchSize = 1
    MaxRounds = 1
    NoScan = NoScan
    Operators = {}
INVARIANT SelfCollisionUnreachable
