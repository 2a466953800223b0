SPECIFICATION MCSpec
CONSTANTS
  Clients = {c1, c2}
  Accounts = {a1}
  MAX_DAILY_REQUEST = 2
  COOLDOWN_PERIOD_SECS = 2
  SECONDS_IN_A_DAY = 6
  Start = 4
  MaxTime = 13
  Requests = {r1, r2}
  NumDelegates = 2
  NumMinters = 3
  Instances = {i1, i2, i3}
  CACHE_SIZE = 2
  Interval = 2
  MaxInstant = 5
INVARIANTS
  
  OneOwner
  EffectsExactlyOnce
PROPERTIES
  ExpiresBeforeBudget
  FundingEnds
  EarlyOnlyAfterEviction
CHECK_DEADLOCK FALSE
