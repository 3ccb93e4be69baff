SPECIFICATION Spec
CONSTANTS
  t1 = t1
  t2 = t2
  Tabs = {t1}
  Lone = t1
  MaxTurns = 3
  MaxPauses = 5
  Deployments = {"home"}
  MaxLost = 0
INVARIANT AnswersAcceptedTurn
CHECK_DEADLOCK FALSE
