SPECIFICATION Spec
CONSTANTS
    Policy <- DefaultPolicy
    Compatibility <- FinalCompatibility
    Runtimes <- Names
    configured <- AsConfigured
    UpdateStepNames <- Updates
    Widgets = {w1, w2}
    Releases = {480, 620}
    Approved = {0, 700}
    Reported = {0, 741}
    MaxMoves = 1
    Crashes = FALSE
INVARIANT UrlFollowsConvention
CHECK_DEADLOCK FALSE
