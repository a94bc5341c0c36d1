CONSTANTS
    x1 = x1
    x2 = x2
    Runs = {x1, x2}
    NRules = 1
    Critical = {1}
    Concurrency = 1
    MaxAttempts = 2
    Hour = 3
    MaxClock = 2
    Faults = {}

SPECIFICATION Spec

CHECK_DEADLOCK FALSE

INVARIANTS
    ReviewIsOfSession
