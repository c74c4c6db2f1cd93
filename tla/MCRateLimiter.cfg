\* Two requests per window of three milliseconds, Retry-After in units of
\* two; a map of one address.
SPECIFICATION LimiterSpec
CONSTANTS
  Keys = {k1, k2}
  Limit = 2
  WindowMs = 3
  SecondMs = 2
  MaxKeys = 1
  MaxTime = 8
  MaxHits = 6
SYMMETRY MCSymmetry
INVARIANTS
  WindowRespected
  RetryAfterHonest
PROPERTY
  MemoryBounded
CHECK_DEADLOCK FALSE
