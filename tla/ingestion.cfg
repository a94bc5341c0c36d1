CONSTANTS
    s1 = s1
    s2 = s2
    Sessions = {s1, s2}
    Verdicts <- MCVerdicts
    AlertRows = 2
    TriggerAttempts = 2
    TaskAttempts = 2
    MaxScheduled = 1
    Faults = {"bucket", "upload", "lost_upload", "trigger", "lost_trigger", "call", "lost_call", "query", "mail", "pause", "worker"}

SPECIFICATION FairSpec
CHECK_DEADLOCK FALSE

INVARIANTS
    TypeOK
    CriticalStopsIngestion
    RunFindsOnce
    AnswerTellsRuns

PROPERTIES
    GuardsIngestion
    WorkEnds
