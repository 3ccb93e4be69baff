SPECIFICATION FairSpec
CONSTANTS
  N = 3
  MaxPapers = 3
  Workers = 2
  MaxCost = 2
  Cap = 5
  Shares = {0, 2}
INVARIANTS
  OvershootBounded
  StopsAreEarned
  SpendAttributed
  NoRefusalContained
  NothingSkipped
PROPERTY Ends
CHECK_DEADLOCK FALSE
