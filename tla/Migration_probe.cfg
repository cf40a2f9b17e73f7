SPECIFICATION Spec
CONSTANTS
    Nodes <- OneSite
    Root = "site"
    Contains <- OneTree
    Plan <- OnePlan
    Sources = {s1}
    MaxRuns = 3
    Crashes = TRUE
    Prunes = FALSE
INVARIANT NeverBootstrapsProduction
CHECK_DEADLOCK FALSE
