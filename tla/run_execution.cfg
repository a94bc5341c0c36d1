CONSTANTS
    x1 = x1
    x2 = x2
    Runs = {x1}
    NRules = 2
    Critical = {1}
    Concurrency = 1
    MaxAttempts = 2
    Hour = 3
    MaxClock = 2
    Faults = {"setup", "refused", "lost", "late", "query", "missing"}

SPECIFICATION FairSpec
CHECK_DEADLOCK FALSE

INVARIANTS
    TypeOK
    CountedOnce
    SummaryStaysTrue
    FailuresAlertedUnlessSilent
    TableHealthWholeRun

PROPERTIES
    RunsReturn
