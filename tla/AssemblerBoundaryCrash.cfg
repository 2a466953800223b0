SPECIFICATION Spec
CONSTANTS
  NoBlock = NoBlock
  Blocks <- MCBlocks
  Genesis <- MCGenesis
  EpochEnding <- MCEpochEnding
  BucketSize = 1
  TrustedProvider = FALSE
  MaxHeight = 2
  EpochEnds = {1}
  Orphans = {}
  DefectHeight = 5
  Defective = {}
  CrashPoints = {"execute"}
INVARIANTS
  EpochBoundaryRecorded
