CONSTANTS
    Model <- MCModel
    Fallbacks <- MCFallbacks
    Answers <- MCAnswers
    Columns = 2
    Tables = 2
    MaxUses = 2
    Faults = {"sample", "overload", "refused", "log"}

SPECIFICATION FairSpec
CHECK_DEADLOCK FALSE

INVARIANTS
    TypeOK
    StageCoversTables
    RulesUnderstood
    OnlyCompleteAnswers
    SemanticsUnderstood

PROPERTIES
    UsesEnd
