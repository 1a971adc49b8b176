SPECIFICATION Spec
CONSTANTS
    p1 = p1
    p2 = p2
    k1 = k1
    k2 = k2
    Procs = {p1, p2}
    Gone = Gone
    Keys = {k1, k2}
    NoKey = NoKey
    MaxStems = 2
    MaxItems = 2
    MaxReceipts = 1
    MaxCorruptions = 1
SYMMETRY Symmetry
INVARIANTS
    TypeOK
    BodiesKept
    KeyedOnce
    AckedByExecutor
