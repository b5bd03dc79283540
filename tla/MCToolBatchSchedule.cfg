SPECIFICATION Spec
CONSTANTS
    N = 3
    Batches <- MCSchedules
    MaxSteers = 1
    Immediate = TRUE
    EventDriven = FALSE
    Hook = FALSE
    HasIrc = TRUE
    CanPause = FALSE
    PeekMayFail = TRUE
INVARIANTS
    SerialOrder
PROPERTIES
    ImplementsContract
