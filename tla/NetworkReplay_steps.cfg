SPECIFICATION Spec
CONSTANTS
    Blogs = {1, 2}
    Main = 1
    Plan <- Steps
    Sites <- AllKinds
    Sources <- OneOrTwo
    MaxMoves = 3
    Crashes = TRUE
INVARIANTS
    TypeOK
    ReplayAccepted
    OnlySearchReplaceStrays
    FinishedIsTest
PROPERTIES
    OnlyRecordedValues
    NoThirdUrl
CHECK_DEADLOCK FALSE
