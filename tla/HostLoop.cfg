SPECIFICATION FairMCSpec
CONSTANTS
    Poll = 1
    IdlePoll = 2
    BgPoll = 3
    IdleAfter = 3
    IdleCap = 4
    TickMin = 1
    FrameInterval = 2
    WarmUp = 2
    Cadences = {0, 3}
    Services = {TRUE, FALSE}
    MaxWork = 1
    Conns <- MCConns
    MaxCallbacks = 3
    MaxDelay = 2
    MaxLines = 2
    MaxInputs = 2
    IdleTurns = 1
    Platforms <- MCPlatforms
    Guests <- MCGuests
    Sizes <- MCSizes
    Floor = 1
    SleepCap = 2
    BgMin = 1
    BgDefault = 2
    BgMax = 3
    Delays <- MCDelays
    MaxEvents = 2
    Launches <- MCLaunches
    MaxAttempts = 2
    MaxValue = 3
    MaxBoots = 1
INVARIANTS EveryIterationTakesTime NothingIsLost BlankPanelIsInert StartsInStep
PROPERTIES LoopServesTheGuest NobodyIsLeftWaiting WindowIsServed
CHECK_DEADLOCK FALSE
