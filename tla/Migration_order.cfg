SPECIFICATION Spec
CONSTANTS
    Nodes <- OneSite
    Root = "site"
    Contains <- OneTree
    Plan <- OnePlan
    Sources = {s1}
    MaxRuns = 3
    Crashes = TRUE
    Prunes = FALSE
INVARIANTS
    ProductionSafeInOrder
    ProbesAvoidProduction
CHECK_DEADLOCK FALSE
