SPECIFICATION FairSpec
CONSTANTS
    Jobs = {j1, j2}
    Ids = {i1, i2}
    None = None
    MaxRunning = 2
    MaxResets = 1
    MaxDiscards = 1
    PhotoFinish = FALSE
INVARIANTS ResultNotLost IdsMatch RowsExpire
CHECK_DEADLOCK FALSE
PROPERTY EventuallyKnown
