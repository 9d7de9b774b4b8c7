CONSTANTS
    Players = {anna, ben}
    Shard <- OneShard
    MaxHealth = 2
    MaxFood = 2
    Fed = 1
    TicksPerPoint = 4
    Saturation = 2
    Tick = Tick
SPECIFICATION Spec
CHECK_DEADLOCK FALSE
PROPERTIES
    TickGivesBack
