SPECIFICATION FairSpec
CONSTANTS
  t1 = t1
  t2 = t2
  Tabs = {t1, t2}
  Lone = t1
  MaxTurns = 3
  MaxPauses = 3
  Deployments = {"memory", "away", "shared"}
  MaxLost = 1
INVARIANTS
  RepliesMatch
  WakesCarryReply
  RowAsksOpenTurn
PROPERTIES
  TalkSpec
  RetryGetsThrough
CHECK_DEADLOCK FALSE
