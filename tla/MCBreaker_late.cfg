\* Three threads, two outages, calls of any length.
SPECIFICATION FairSpec
CONSTANTS
    Threads = {t1, t2, t3}
    Threshold = 2
    ResetTimeout = 2
    Outages = 2
INVARIANTS
    TypeOK
    ThresholdDecides
    HalfOpenHasProbe
    PromptSingleFlight
PROPERTIES
    ProbesAreSpaced
    ClosesAfterOutage
