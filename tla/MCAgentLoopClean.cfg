SPECIFICATION FairSpec
CONSTANTS
    Steers <- TwoSteers
    FollowUps <- OneFollow
    Asides <- NoMessage
    SteerOne = TRUE
    FollowOne = FALSE
    HasDeadline = TRUE
    HasGate = FALSE
    HostMayFail = FALSE
    ThunksMayFail = FALSE
    Replays = TRUE
    Leaks = FALSE
    MaxAborts = 1
INVARIANTS QueueOrder EndMeansAnswered SeenIsRecorded
PROPERTIES SteerDelivered
