SPECIFICATION FairSpec
CONSTANTS
  c1 = c1
  c2 = c2
  Clients = {c1}
  Transports = {"memory", "redis"}
  Places = {"home", "away"}
  MaxFrames = 4
  MaxParks = 2
  QueueMax = 2
  MaxLost = 1
  MaxDrops = 1
INVARIANTS
  NothingMissed
  TimeoutMeansGoingOn
  PauseReaches
PROPERTIES
  TakenIsSent
  OutcomeLearnt
CHECK_DEADLOCK FALSE
