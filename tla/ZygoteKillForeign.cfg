SPECIFICATION MCSpec
CONSTANTS
    p1 = p1
    p2 = p2
    s1 = s1
    b1 = b1
    b2 = b2
    l1 = l1
    l2 = l2
    NoFile = NoFile
    Torn = Torn
    Builds <- MCBuilds
    Versions <- MCTwo
    Engines <- MCTwo
    Loaders <- MCLoaders
    StoreSettings <- MCStoreSettings
    MaxInstalls = 2
    DepSettings <- MCDepSettings
    Pids <- MCPids
    Subscribers <- MCSubscribers
    NoPid = NoPid
    PromptReuse = FALSE
    ZygoteDies = FALSE
PROPERTIES OnlyOwnChildrenSignalled
CHECK_DEADLOCK FALSE
