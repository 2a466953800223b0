SPECIFICATION MCSpec
CONSTANTS
  t1 = t1
  t2 = t2
  Terminals = {t1, t2}
  Commands = {"profile", "password", "generate", "rotate_key", "rotate_net", "node"}
  Passwords = {p1, p2}
  Faults = {"stop", "late"}
  MaxFresh = 3
  None = None
CHECK_DEADLOCK FALSE
INVARIANTS
  IdentityFollowsChain
  
  FilesAgree
PROPERTIES
  CommitteeKeySurvives
  NodeKeepsUp
