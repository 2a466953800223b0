SPECIFICATION LimiterSpec
CONSTANTS
  Requests = {r1, r2, r3, r4}
  Workers = 2
  MAX_CONCURRENCY = 2
  U16Size = 8
PROPERTIES
  RefusedOnlyUnderLoad
