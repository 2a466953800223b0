SPECIFICATION MCSpec
CONSTANTS
  Txs = {t1}
  Automated = {a1}
  Metadata = {m1}
  Outcomes = {"Success", "Invalid", "PendingAfterExecution"}
  MaxHeight = 3
INVARIANTS
  BacklogIsExact
  
  ListedIsComplete
PROPERTIES
  WaiterIsTold
CHECK_DEADLOCK FALSE
