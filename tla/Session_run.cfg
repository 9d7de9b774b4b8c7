CONSTANTS
    Players = {anna}
    Conns = {c1, c2}
    Capacities = {1, 2}
    MaxProgress = 2
    MaxLogins = 3
    MaxStarts = 1
    Nobody = Nobody
SPECIFICATION Spec
CHECK_DEADLOCK FALSE
SYMMETRY Symmetry
INVARIANTS
    TypeOK
    OnlineHasTask
    StopSaves
    BanHolds
    SavedBansHold
PROPERTIES
    RowsGrow
