CONSTANTS
    x1 = x1
    x2 = x2
    Runs = {x1}
    NRules = 2
    Critical = {1}
    Concurrency = 2
    MaxAttempts = 2
    Hour = 3
    MaxClock = 0
    Faults = {"refused"}

SPECIFICATION Spec

CHECK_DEADLOCK FALSE

INVARIANTS
    FailuresAlerted
