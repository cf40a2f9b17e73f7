SPECIFICATION Spec
CONSTANTS
    Slugs <- TwoPlugins
    Lists <- TwoLists
    Work = {w1}
    MaxVersion = 2
    MaxRuns = 2
    MaxFaults = 2
    Crashes = TRUE
INVARIANTS
    TypeOK
    VisibleWorkIsKept
    StashIsReported
    DirectoryIsBack
    ChangesAreTrue
PROPERTY WholeCopyStays
CHECK_DEADLOCK FALSE
