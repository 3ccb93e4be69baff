SPECIFICATION FairSpec
CONSTANTS
  j1 = j1
  j2 = j2
  j3 = j3
  Jobs = {j1, j2, j3}
  Permits = 2
  MaxNodes = 1
INVARIANTS
  ZombiesExact
  Accounted
  ReadyFindsThread
PROPERTIES
  StartsUnderPermit
  PermitReturns
  ZombiesClear
CHECK_DEADLOCK FALSE
