CONSTANTS
    Base = 4
    VarIntBytes = 5
    Word = 512
    MaxFrame = 10
    Threshold = 3
    ZlibHeader = 6
    Payloads <- SomePayloads
    Ids = {0, 2, 5}
    MaxSent = 3
SPECIFICATION FramesSpec
CHECK_DEADLOCK FALSE
INVARIANTS
    PacketsUnderstood
