SPECIFICATION Spec
CONSTANTS
    Procs = {"p", "q"}
    Calls = {"a", "b", "c"}
    Refused = {"b", "c"}
    ProcOf <- MCProcOf
    NoOne = NoOne
    MaxTokens = 3
    MaxDue = 1
    MaxFaults = 1
PROPERTIES RotationKept
CHECK_DEADLOCK FALSE
