CONSTANTS
    t1 = t1
    t2 = t2
    g1 = g1
    g2 = g2
    c1 = c1
    tb1 = tb1
    tb2 = tb2
    Tasks = {t1, t2}
    GeneratedRules = {g1}
    CustomRules = {c1}
    Supported = {c1}
    Tables = {tb1, tb2}
    MaxVersions = 1
    MaxTicks = 1
    Requests = {"generate", "approve", "execute"}
    Faults = {"insert", "discovery", "generate", "claude", "ddl", "lost_ddl", "late_ddl", "bad_mods", "composer", "execute", "crash"}

SPECIFICATION FairSpec

INVARIANTS
    RowsNeverAhead
    AutomationNeedsApproval

PROPERTIES
    RequestsReturn
