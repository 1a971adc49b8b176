\* One process, one request: a manifest that becomes unreadable, and a salvage
\* that does not finish.
SPECIFICATION Spec
CONSTANTS
    p1 = p1
    k1 = k1
    Procs = {p1}
    Gone = Gone
    Keys = {k1}
    NoKey = NoKey
    MaxStems = 1
    MaxItems = 1
    MaxReceipts = 1
    MaxCorruptions = 1
INVARIANT
    NeverZeroRecovered
