CONSTANTS
    Builders = {anna, ben}
    Row <- Pair
    Width = 2
    Height = 1
    SectionHeight = 1
    MaxLight = 2
    ShardOf <- OwnShards
    MaxBuilds = 2
SPECIFICATION FairLighting
CHECK_DEADLOCK FALSE
PROPERTY
    BorderIsLit
