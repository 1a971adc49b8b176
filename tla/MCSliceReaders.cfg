\* Readers and the writer take turns.  Every failure may happen, the four the code
\* does not recover from included; a state after one of those is checked and not
\* continued.
SPECIFICATION RSpec
CONSTANTS
  Ids = {a, b}
  Absent = Absent
  Garbage = Garbage
  Payloads <- OnePayload
  Deltas <- OneDelta
  SyncEvery = 2
  CompactMinOps = 2
  MaxLines = 2
  MaxGen = 3
  Faults <- AllFaults
  Concurrent = FALSE
SYMMETRY IdSymmetry
CONSTRAINT StillSafe
PROPERTY ReaderChangesNothing
