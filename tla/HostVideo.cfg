SPECIFICATION FairMCSpec
CONSTANTS
    Stream <- MCStream  Reorder = 1  Cushion = 2  Budget = 1  Floor = 2
    Unreadable = {}  Worlds <- MCWorlds  MaxGen = 1  MaxSurfaces = 1
    MaxPictures = 3  MaxOpens = 2  MaxRequests = 2
    Slots = {1, 2}  Panel <- MCPanel  Rects <- MCRects  Turns <- MCTurns  Contents = {0, 90}
    Sensors <- MCSensors  Inputs = 1  Outputs = {1, 2}  Sizes = {"fits"}
    MaxTurns = 2  MaxCodecs = 2  MaxEmbedded = 2  MaxHeld = 2
INVARIANTS InFlightCounted AccelerationIsHonoured BuffersAreAccounted 
PROPERTIES CallIsServed VideoGoesOn
CHECK_DEADLOCK FALSE
