SPECIFICATION Spec
CONSTANTS
    Steers <- OneSteer
    FollowUps <- OneFollow
    Asides <- TwoAsides
    SteerOne = TRUE
    FollowOne = FALSE
    HasDeadline = TRUE
    HasGate = TRUE
    HostMayFail = TRUE
    ThunksMayFail = TRUE
    Replays = TRUE
    Leaks = TRUE
    MaxAborts = 1
PROPERTIES AbortKeepsQueue LossNeedsCause AsideSettled
