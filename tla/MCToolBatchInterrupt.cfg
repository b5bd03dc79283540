SPECIFICATION FairSpec
CONSTANTS
    N = 2
    Batches <- MCWaitAndWork
    MaxSteers = 1
    Immediate = TRUE
    EventDriven = TRUE
    Hook = TRUE
    HasIrc = FALSE
    CanPause = TRUE
    PeekMayFail = FALSE
INVARIANTS
    HonestResults
    SteeringSparesForeground
PROPERTIES
    NoStaleStart
    SteerUnblocksWaits
    AbortUnwinds
