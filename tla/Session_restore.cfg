CONSTANTS
    Players = {anna, boris}
    Conns = {c1, c2}
    Capacities = {1}
    MaxProgress = 1
    MaxLogins = 2
    MaxStarts = 0
    Nobody = Nobody
SPECIFICATION Spec
CHECK_DEADLOCK FALSE
PROPERTIES
    RestoresSaved
