SPECIFICATION FairSpec
CONSTANTS
  N = 2
  Configs = {"before", "after"}
  GraphCosts = {2}
  JudgeCosts = {1}
  Cap = 3
  MaxCrashes = 2
  MaxChanges = 2
INVARIANTS
  SpendAccounted
  CapOvershoot
  BooksMatchDisk
  PassMeasuresOneInstrument
PROPERTIES
  RecordSpec
  Finishes
CHECK_DEADLOCK FALSE
