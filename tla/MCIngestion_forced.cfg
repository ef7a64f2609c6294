\* Two operators replay the same failed Raw.
SPECIFICATION Spec
CONSTANTS
    Raws <- OneRaw
    OrderOf <- OneOrder
    PayloadOf <- OneClean
    FaultBudgets <- ReplayBudgets
    Attempts = 1
    MaxMsgs = 1
    Workers = {w1}
    Scans = {s1}
    BatchSize = 1
    MaxRounds = 1
    NoScan = NoScan
    Operators = {op1, op2}
PROPERTY ProcessedIsFinal
