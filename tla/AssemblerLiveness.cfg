SPECIFICATION FairSpec
CONSTANTS
  NoBlock = NoBlock
  Blocks <- MCBlocks
  Genesis <- MCGenesis
  EpochEnding <- MCEpochEnding
  BucketSize = 1
  TrustedProvider = FALSE
  MaxHeight = 5
  EpochEnds = {2}
  Orphans = {}
  DefectHeight = 5
  Defective = {}
  CrashPoints = {"idle", "commit", "finish"}
PROPERTIES
  CatchUp
