SPECIFICATION FairSpec
CONSTANTS
    Poll = 1
    IdlePoll = 2
    BgPoll = 3
    IdleAfter = 3
    IdleCap = 4
    TickMin = 1
    FrameInterval = 2
    WarmUp = 2
    Cadences = {0, 3}
    Services = {TRUE, FALSE}
    MaxWork = 1
PROPERTIES DozedFramesStillCome
CHECK_DEADLOCK FALSE
