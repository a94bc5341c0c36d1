CONSTANTS
    t1 = t1
    t2 = t2
    g1 = g1
    g2 = g2
    c1 = c1
    tb1 = tb1
    tb2 = tb2
    Tasks = {t1}
    GeneratedRules = {g1, g2}
    CustomRules = {c1}
    Supported = {g1}
    Tables = {tb1}
    MaxVersions = 2
    MaxTicks = 4
    Requests = {"generate", "custom", "update", "approve", "sql"}
    Faults = {"ddl", "lost_ddl", "late_ddl", "claude", "generate", "discovery"}

SPECIFICATION Spec

INVARIANTS
    TypeOK
    VersionsAgree
    DecisionsDurable
    AuditAgrees

PROPERTIES
    DeployOnlyWhileApproved
    NoActiveRuleLost
