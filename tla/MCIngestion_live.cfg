\* Liveness of two Raws behind pages of one row, one of which cannot be stored: a
\* crash, a lost acknowledgement or an error inside or outside the worker's try.
SPECIFICATION FairSpec
CONSTANTS
    Raws <- TwoRaws
    OrderOf <- OwnOrder
    PayloadOf <- OnePoison
    FaultBudgets <- LiveBudgets
    Attempts = 1
    MaxMsgs = 1
    Workers = {w1}
    Scans = {s1}
    BatchSize = 1
    MaxRounds = 2
    NoScan = NoScan
    Operators = {}
PROPERTIES
    EveryRawIsSettled
