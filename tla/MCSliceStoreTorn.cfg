\* A write cut short leaves an unterminated last line.
SPECIFICATION Spec
CONSTANTS
  Ids = {a}
  Absent = Absent
  Garbage = Garbage
  Payloads <- OnePayload
  Deltas <- MCDeltas
  SyncEvery = 2
  CompactMinOps = 3
  MaxLines = 2
  MaxGen = 1
  Faults = {"tear"}
INVARIANT AcknowledgedSurvives
