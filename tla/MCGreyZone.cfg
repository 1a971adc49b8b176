\* Two concurrent requests for one query; the clock runs past both TTLs and past
\* the window of the one lesson on file, which blacklists the query.  The cache
\* holds one of two verdicts.
SPECIFICATION Spec
CONSTANTS
  Requests = {r1, r2}
  Queries = {q}
  Ttl = 1
  VerdictTtl = 1
  RejectLimit = 1
  CacheCap = 1
  MaxTime = 4
  MaxLessons = 1
  None = None
SYMMETRY RequestSymmetry
CONSTRAINT EarlyLessons
INVARIANTS TypeOK ReuseRestsOnOpinion LessonsBlock
