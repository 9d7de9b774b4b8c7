CONSTANTS
    BlocksPerSection = 2
    GlobalBits = 2
    WordBits = 3
    States <- OneWet
    Sections = {0, 1}
    MaxSets = 2
    Byte = 4
    X = 1
    Z = 2
    LightBytes = 2
    LongestData = 200
SPECIFICATION FileSpec
CHECK_DEADLOCK FALSE
INVARIANT
    SavedColumnComesBack
