\* The CAS, the stale threshold and the scan lock as locks: one Raw, one replay and
\* two scans, under the faults that leave them intact or under those that do not.
SPECIFICATION Spec
CONSTANTS
    Raws <- OneRaw
    OrderOf <- OneOrder
    PayloadOf <- OneClean
    FaultBudgets <- LockBudgets
    Attempts = 2
    MaxMsgs = 2
    Workers = {w1, w2}
    Scans = {s1, s2}
    BatchSize = 1
    MaxRounds = 1
    NoScan = NoScan
    Operators = {op1}
SYMMETRY Symmetry
INVARIANTS
    TypeOK
    ProcessingIsTimed
    OnlyDurableRawsAreNamed
    SingleWriter
    RowMeansProcessed
PROPERTIES
    LockIsLostToItsTTL
    LifecycleSpec
