SPECIFICATION FramingSpec
CONSTANTS
    Bytes <- MCBytes
    MaxBody = 2
    MaxStream = 7
    Frames <- MCFrames
    Delays = {0, 1}
    MaxSelectors = 58
    MaxStuffedBits = 26
    MaxNoise = 11
INVARIANTS
    MatchesReference
    Resynchronises
    FrameGetsThrough
CHECK_DEADLOCK FALSE
