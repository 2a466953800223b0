SPECIFICATION MCSpec
CONSTANTS
  c1 = c1
  c2 = c2
  n1 = n1
  n2 = n2
  Clients = {c1, c2}
  Nodes = {n1, n2}
  expiration_secs = 2
  TX_FINALIZATION_MARGIN_SECS = 3
  RETRY_DELAY = 1
  Round = 1
  Skew = 1
  MaxLag = 1
  MaxStart = 1
  NoTx = NoTx
  None = None
INVARIANTS
  ReportMatchesChain
  RoutedRight
  AnswerIsRight
  CommandIsServed
PROPERTIES
  TimeoutIsFinal
  SingleCommandEnds
CHECK_DEADLOCK FALSE
