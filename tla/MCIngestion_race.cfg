\* Three Raws of one order in two workers; no Beat in this instance, so the
\* system rests once its messages are gone.
SPECIFICATION Spec
CONSTANTS
    Raws <- ThreeRaws
    OrderOf <- SameOrder
    PayloadOf <- OneUnstorable
    FaultBudgets <- RaceBudgets
    Attempts = 2
    MaxMsgs = 1
    Workers = {w1, w2}
    Scans = {}
    BatchSize = 2
    MaxRounds = 1
    NoScan = NoScan
    Operators = {}
SYMMETRY Symmetry
INVARIANTS
    TerminalIsTruthful
    IInv
PROPERTIES
    LedgerSpec
CHECK_DEADLOCK FALSE
