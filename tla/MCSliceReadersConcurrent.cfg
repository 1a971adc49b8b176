\* Readers load while the writer is at work.
SPECIFICATION RSpec
CONSTANTS
  Ids = {a}
  Absent = Absent
  Garbage = Garbage
  Payloads <- OnePayload
  Deltas <- OneDelta
  SyncEvery = 2
  CompactMinOps = 2
  MaxLines = 2
  MaxGen = 3
  Faults = {"rename", "remove", "header"}
  Concurrent = TRUE
PROPERTY ReaderChangesNothing
