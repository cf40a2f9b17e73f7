SPECIFICATION Spec
CONSTANTS
    Nodes <- TwoSites
    Root = "parent"
    Contains <- TwoTrees
    Plan <- TwoPlan
    Sources = {s1, s2}
    MaxRuns = 2
    Crashes = TRUE
    Prunes = TRUE
SYMMETRY SourceSymmetry
INVARIANTS
    TypeOK
    FinishedMigrationIsWhole
PROPERTY OldTreeRemovedOnlySaved
CHECK_DEADLOCK FALSE
