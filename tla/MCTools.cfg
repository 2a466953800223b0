SPECIFICATION MCSpec
CONSTANTS
  Validators = {v1, v2}
  Params = {p1, p2}
  MaxChanges = 1
  MaxSignatures = 2
  a1 = a1
  a2 = a2
  a3 = a3
  p1 = p1
  None = None
  Exports <- MCExports
  Columns <- MCColumns
  BatchSize = 2
  MaxRows = 3
  MaxRuns = 2
  Nil = Nil
SYMMETRY Symmetry
INVARIANTS
  BlobsAgree
  
  ExportIsWhole
CHECK_DEADLOCK FALSE
