SPECIFICATION FairSpec
CONSTANTS
    MaxItems = 3
    Ceilings = {1, 2}
    MaxJobs = 3
    MaxOthers = 1
    Callers = {1, 2, 3}
    Limits = {1, 2}
INVARIANTS PoolInv QueuedOnce SlotsSafe
PROPERTIES OverIsFinal PoolEnds
CHECK_DEADLOCK FALSE
