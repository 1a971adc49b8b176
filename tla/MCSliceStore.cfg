\* Every failure the code handles, power loss included; two slices.
SPECIFICATION Spec
CONSTANTS
  Ids = {a, b}
  Absent = Absent
  Garbage = Garbage
  Payloads <- OnePayload
  Deltas <- MCDeltas
  SyncEvery = 2
  CompactMinOps = 2
  MaxLines = 2
  MaxGen = 3
  Faults <- HandledFaults
SYMMETRY IdSymmetry
INVARIANTS TypeOK ReloadSame
PROPERTIES ArchivedFirst ImplementsAbs KeptUnlessPowerLoss
