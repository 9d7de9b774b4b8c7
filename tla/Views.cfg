CONSTANTS
    Players = {anna, boris}
    Mobs = {pig}
    Positions <- Line3
    Origin = 0
    PlayerRange = 1
    MobRange = 0
    Capacity = 2
    MaxJoins = 3
    MaxMoves = 1
    Viewers = {clara, dora}
    ChunkPositions <- Row
    Jobs = {j1}
    Spawn = 0
    MaxView = 2
    MinView = 1
    Ahead = 0
    SendLimit = 1
    BatchSize = 1
    Near = 2
    Mid = 6
    MaxEdits = 1
    MaxCrossings = 4
    Base = 4
    VarIntBytes = 5
    Word = 512
    MaxFrame = 5
    Threshold = 0
    ZlibHeader = 6
    Payloads <- SomePayloads
    Ids = {0, 5}
    MaxSent = 4
SPECIFICATION ViewsSpec
CHECK_DEADLOCK FALSE
SYMMETRY Symmetry
INVARIANTS
    ViewsTypeOK
    EditsAccountedFor
    
    ClientFollows
    
    PacketsUnderstood
