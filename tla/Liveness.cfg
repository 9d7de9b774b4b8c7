CONSTANTS
    ChunkPositions <- Row
    Viewers = {anna}
    Jobs = {j1}
    Spawn = 0
    MaxView = 1
    MinView = 1
    Ahead = 1
    SendLimit = 1
    BatchSize = 1
    Near = 0
    Mid = 1
    MaxEdits = 0
    MaxCrossings = 5
    Watchers = {boris, clara}
    Places <- Line
    Origin = 0
    PlayerRange = 0
    Capacity = 1
    MaxJoins = 3
    MaxWalks = 1
SPECIFICATION LiveSpec
CHECK_DEADLOCK FALSE
PROPERTIES
    NeededArrives
    
