CONSTANTS
    Players = {anna, boris}
    Chunks = {c1, c2}
    Cells = {k1}
    Near <- Everything
    Period = 2
    Interval = 1
    MaxSections = 1
    MaxChanges = 2
    BlocksPerSection = 2
    GlobalBits = 2
    WordBits = 3
    States <- OneWet
    Sections = {0}
    MaxSets = 5
    Builders = {carl, dora}
    Row <- Pair
    Width = 2
    Height = 3
    SectionHeight = 2
    MaxLight = 2
    ShardOf <- OwnShards
    MaxBuilds = 2
    Wide = 2
    Tall = 4
    Grounds <- Lands
    Ripe = 2
    MaxEdits0 = 2
    MaxPasses = 3
    erik = erik
    w1 = w1
    w2 = w2
    Hunters = {w1, w2}
    Prey <- Chased
    FieldX = 3
    FieldZ = 2
    Side = 2
    Far = 2
    CacheMax = 1
    Buildings <- Walls
    Starts <- Places
    PathSteps = 2
SPECIFICATION BlocksSpec
CHECK_DEADLOCK FALSE
SYMMETRY Symmetry
INVARIANTS
    BlocksTypeOK
    LastMarkIsBlock
    FlushShowsMarked
    LightExplained
    
PROPERTIES
    ImplementsCells
    PathsShortest
