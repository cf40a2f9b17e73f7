SPECIFICATION FairSpec
CONSTANTS
    Plan <- UpdatePlan
    Changes <- UpdateChanges
    FileChanges <- UpdateFiles
    HealthSeen <- GoodOrBad
    Configs = {c1, c2}
    MaxRuns = 3
    Crashes = FALSE
    Edits = TRUE
    NewestOnly = FALSE
INVARIANTS
    OnOwnPrefix
    OneConfiguration
    NeverPastARegression
PROPERTIES
    Settles
CHECK_DEADLOCK FALSE
