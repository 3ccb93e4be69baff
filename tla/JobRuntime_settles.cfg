SPECIFICATION FairSpec
CONSTANTS
  w1 = w1
  w2 = w2
  r1 = r1
  c1 = c1
  NoOne = NoOne
  Workers = {w1, w2}
  Runs = {r1}
  Clients = {c1}
  Kind = "research"
  MaxPauses = 1
  RequeuePending = FALSE
  MaxAttempts = 1
  AtomicResume = FALSE
  FaultyOps = {"acquire", "update", "publish"}
  MaxFaults = 1
  MaxStops = 1
  MaxStalls = 1
PROPERTY
  Settles
  ReclaimSparesOutcome
CONSTRAINT
  OneTrouble
  OneHome
