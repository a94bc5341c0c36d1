CONSTANTS
    t1 = t1
    t2 = t2
    g1 = g1
    g2 = g2
    c1 = c1
    tb1 = tb1
    tb2 = tb2
    Tasks = {t1, t2}
    GeneratedRules = {g1}
    CustomRules = {c1}
    Supported = {c1}
    Tables = {tb1}
    MaxVersions = 1
    MaxTicks = 3
    Requests = {"generate", "custom", "approve", "sql"}
    Faults = {"lost_ddl", "late_ddl", "ddl", "crash"}

SPECIFICATION Spec
SYMMETRY Symmetry

INVARIANTS
    NamedProcedureExists
    NoRuleTwice

PROPERTIES
    KeepsGates
