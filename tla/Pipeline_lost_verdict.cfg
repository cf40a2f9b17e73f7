SPECIFICATION Spec
CONSTANTS
    Plan <- UpdatePlan
    Changes <- UpdateChanges
    FileChanges <- UpdateFiles
    HealthSeen <- GoodOrBad
    Configs = {c1}
    MaxRuns = 2
    Crashes = TRUE
    Edits = FALSE
    NewestOnly = TRUE
INVARIANT NeverPastARegression
CHECK_DEADLOCK FALSE
