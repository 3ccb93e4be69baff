SPECIFICATION FairSpec
CONSTANTS
  a = a
  b = b
  NoJob = NoJob
  Jobs = {a,b}
  Existing = {a,b}
  Acts = {}
  MaxReads = 2
  MaxFails = 1
INVARIANT StreamOfCurrent
PROPERTY ScreenRecovers
CHECK_DEADLOCK FALSE
