\* Every failure, the four the code does not recover from included; a state
\* after one of those is checked and not continued.
SPECIFICATION Spec
CONSTANTS
  Ids = {a, b}
  Absent = Absent
  Garbage = Garbage
  Payloads <- OnePayload
  Deltas <- MCDeltas
  SyncEvery = 2
  CompactMinOps = 2
  MaxLines = 2
  MaxGen = 2
  Faults <- AllFaults
SYMMETRY IdSymmetry
CONSTRAINT StillSafe
INVARIANT ReloadSame
