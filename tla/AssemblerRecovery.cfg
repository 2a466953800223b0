SPECIFICATION Spec
CONSTANTS
  NoBlock = NoBlock
  Blocks <- MCBlocks
  Genesis <- MCGenesis
  EpochEnding <- MCEpochEnding
  BucketSize = 1
  TrustedProvider = FALSE
  MaxHeight = 6
  EpochEnds = {4}
  Orphans = {3}
  DefectHeight = 5
  Defective = {"bad_qc", "inconsistent", "uncertified"}
  CrashPoints = {"idle", "batches", "persist", "commit", "execute", "finish", "boundary"}
INVARIANTS
  SyncPostedForMissing
  StartNeverRefused
