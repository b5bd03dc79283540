SPECIFICATION Spec
CONSTANTS
    Messages = {m1, m2, m3}
    Assistants = {m2}
    Titles = {t1}
    Staged <- OneStaged
    NoFile = NoFile
    None = None
    MaxTasks = 2
    MaxEpoch = 2
    MaxFaults = 2
    LateTitleFails = TRUE
INVARIANT AckedSurvives
CHECK_DEADLOCK FALSE
