SPECIFICATION Spec
CONSTANTS
  NoBlock = NoBlock
  Blocks <- MCBlocks
  Genesis <- MCGenesis
  EpochEnding <- MCEpochEnding
  BucketSize = 1
  TrustedProvider = FALSE
  MaxHeight = 6
  EpochEnds = {4}
  Orphans = {3}
  DefectHeight = 5
  Defective = {"bad_qc", "inconsistent", "uncertified"}
  CrashPoints = {"genesis", "idle", "batches", "persist", "commit", "execute", "record", "finish", "boundary"}
INVARIANTS
  TypeOK
  LedgerIsChain
  RegressionsUnreachable
  ScheduledBlockIsNext
  MemoIsBacked
  FullBlocksInBucket
  CacheEmptyAtEpochEnd
PROPERTIES
  ImplementsWriteAheadLedger
