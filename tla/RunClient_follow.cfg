SPECIFICATION FairSpec
CONSTANTS
  a = a
  NoJob = NoJob
  Jobs = {a}
  Existing = {}
  Acts = {"submit","reset","review"}
  MaxReads = 2
  MaxFails = 1
INVARIANT CheckpointOfConnection
INVARIANT ToldOnce
PROPERTY FollowedToTheEnd
CHECK_DEADLOCK FALSE
