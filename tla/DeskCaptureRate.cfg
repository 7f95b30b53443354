SPECIFICATION HostSpec
CONSTANTS
    Target = 2
    JitterCap = 3
    MaxFrames = 0
    Ops = {}
    DeskKinds <- MCDeskKinds  Ratios <- MCRatios
    DeskCap = 3  DeskBurst = 4  DeskFrames = 6
    TrackKinds <- MCTrackKinds  TrackCap = 4  TrackBurst = 1  Fifo = 2
    Behind = 2  TrackOpens = 2
    RingCap = 3  BufCap = 4  Tick = 3  CaptureFrames = 9  CaptureOpens = 2
    MaxIndex = 1  Ringers <- MCRingers
INVARIANTS CaptureKeepsTheRate
CHECK_DEADLOCK FALSE
