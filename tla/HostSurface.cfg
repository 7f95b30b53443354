SPECIFICATION FairMCSpec
CONSTANTS
    Settings <- MCSettings
    PanelW = 5
    PanelH = 7
    Keep = 255
    Orients = {0, 3, 4, 7}
    Keyboards = {0, 2}
    Heights = {2, 3}
    StartBars <- MCStartBars
    StartHeight = 2
    MaxBatch = 2
    h1 = h1
    h2 = h2
    Hosts <- MCHosts
    NoHost = NoHost
    FocusEvery = 2
    MaxOrders = 2
    Paced = TRUE
    Presenters <- MCPresenters
    Sizes <- MCSizes
    MaxDepth = 2
    MaxFrames = 2
    c1 = c1
    p1 = p1
    l1 = l1
    l2 = l2
    Canvases <- MCCanvases
    Prints <- MCPrints
    Layers <- MCLayers
    Marks <- MCMarks
    MaxCaptures = 2
    Families <- MCFamilies
    Bundled <- MCIcons
    Installed <- MCIcons
    Readable <- MCReadable
    Assets <- MCAssets
    MaxOps = 4
    MaxResumes = 1
INVARIANTS GuestIsNotMisled GuestKnowsItsSize BufferFitsSurface OverlayAnchored ScenesAreCounted
PROPERTIES OrdersSettle FramesAreWhole BuiltAsWritten
CHECK_DEADLOCK FALSE
