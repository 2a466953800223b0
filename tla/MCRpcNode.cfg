SPECIFICATION MCSpec
CONSTANTS
  Capacity = 3
  Prices = {1, 2, 7}
  StartPrice = 1
  U64Max = 50
  MaxBatch = 4
  Requests = {r1, r2, r3, r4}
  Workers = 2
  MAX_CONCURRENCY = 2
  U16Size = 8
  None = None
  MaxCount = 2
  MaxStarts = 4
  Configs <- MCConfigs
  MaxEpoch = 3
INVARIANTS
  
  
  RunningNodeIsSound
PROPERTIES
  ImplementsGasWindow
  EpochReached
CHECK_DEADLOCK FALSE
