SPECIFICATION Spec
CONSTANTS
    Policy <- DefaultPolicy
    Compatibility <- FinalCompatibility
    Runtimes <- Names
    configured <- AsConfigured
    UpdateStepNames <- Updates
    Widgets = {w1, w2}
    Releases = {480, 620}
    Approved = {0, 700}
    Reported = {0, 741}
    MaxMoves = 3
    Crashes = TRUE
SYMMETRY Alike
INVARIANTS
    TypeOK
    FinishedIsModern
PROPERTIES
    NeverDowngrades
    NoCheckpointSkipped
    InstalledByFittingPhp
    RestoresOnlyWhenAsked
CHECK_DEADLOCK FALSE
