SPECIFICATION Spec
CONSTANTS
    Plan <- MigrationPlan
    Changes <- MigrationChanges
    FileChanges <- MigrationFiles
    HealthSeen <- SeenHealth
    Configs = {c1}
    MaxRuns = 3
    Crashes = TRUE
    Edits = FALSE
    NewestOnly = FALSE
INVARIANTS
    TypeOK
    HistoryResumable
    PositionLocatesRun
    RecordsAreTrue
    SuccessIsComplete
    AtMostOneUnrecorded
PROPERTIES
    DryRunIsInert
    KeepsOrder
CHECK_DEADLOCK FALSE
