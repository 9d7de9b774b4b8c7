CONSTANTS
    Pos = {p1, p2, p3}
    Threads = {t1, t2}
    MaxChunks = 2
    MaxEdits = 1
    MaxUnloads = 1
    UsizeRange = 16
    NoChunk = NoChunk
SPECIFICATION StoreSpec
SYMMETRY Symmetry
INVARIANTS
    TypeOK
    CountAccounting
    SettledCapacity
    EditsAccountedFor
PROPERTIES
    EvictsInOrder
