SPECIFICATION FairSpec
CONSTANTS
    Procs = {"p", "q"}
    Calls = {"a", "b", "c"}
    Refused = {"b", "c"}
    ProcOf <- MCProcOf
    NoOne = NoOne
    MaxTokens = 3
    MaxDue = 1
    MaxFaults = 1
INVARIANTS LeaseInv AccountKept
PROPERTIES LateAnswerIsDropped KeyReturns
CHECK_DEADLOCK FALSE
