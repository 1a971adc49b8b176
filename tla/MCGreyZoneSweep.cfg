\* Two requests look up the same expired entry.
SPECIFICATION Spec
CONSTANTS
  Requests = {r1, r2}
  Queries = {q}
  Ttl = 1
  VerdictTtl = 1
  RejectLimit = 1
  CacheCap = 2
  MaxTime = 4
  MaxLessons = 0
  None = None
SYMMETRY RequestSymmetry
PROPERTY FreshStays
