SPECIFICATION MCSpec
CONSTANTS
    MaxEvents = 2
    Issues = {"issue"}
    Pulls = {"pull"}
    Slots = 2
    MaxRetries = 1
    MaxReplays = 1
    MaxCancels = 1
    MaxEnds = 1
INVARIANTS QueueInv RowHasRunner
PROPERTIES InterruptedStays EveryEventDecided
CHECK_DEADLOCK FALSE
