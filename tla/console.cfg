CONSTANTS
    t1 = t1
    t2 = t2
    c1 = c1
    tb1 = tb1
    b1 = b1
    Consoles = {b1}
    Tasks = {t1, t2}
    GeneratedRules = {}
    CustomRules = {c1}
    Supported = {c1}
    Tables = {tb1}
    MaxVersions = 2
    MaxTicks = 3
    Requests = {"custom"}
    Faults = {"crash"}

SPECIFICATION ConsoleSpec
SYMMETRY Symmetry
CHECK_DEADLOCK FALSE

INVARIANTS
    ConsoleTypeOK
    SignOffInOrder
    NothingRunsUnapproved
    ReplacedAfterNoAnswer

