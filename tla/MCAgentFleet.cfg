SPECIFICATION FairSpec
CONSTANTS
    Messages = {a, b}
    Killers = {k}
    MaxRefs = 2
    MaxSessions = 4
    MaxFaults = 1
INVARIANTS FleetInv IdleIsTimed RefusedForAReason
PROPERTIES AbortedIsFinal ParkIsSafe SendReturns
CHECK_DEADLOCK FALSE
