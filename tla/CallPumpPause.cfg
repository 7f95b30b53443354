SPECIFICATION Spec
CONSTANTS
    Target = 2
    JitterCap = 3
    MaxFrames = 4
    Ops = {"pause"}
PROPERTIES PauseSilences
CHECK_DEADLOCK FALSE
