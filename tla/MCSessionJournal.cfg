SPECIFICATION FairSpec
CONSTANTS
    Messages = {m1, m2}
    Assistants = {m2}
    Titles = {t1}
    Staged <- OneStaged
    NoFile = NoFile
    None = None
    MaxTasks = 2
    MaxEpoch = 2
    MaxFaults = 1
    LateTitleFails = FALSE
INVARIANTS AnswersHold JournalInv
PROPERTY WritersReturn
CHECK_DEADLOCK FALSE
