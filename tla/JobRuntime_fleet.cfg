SPECIFICATION Spec
CONSTANTS
  w1 = w1
  w2 = w2
  r1 = r1
  r2 = r2
  r3 = r3
  c1 = c1
  NoOne = NoOne
  Workers = {w1, w2}
  Runs = {r1, r2, r3}
  Clients = {c1}
  Kind = "session"
  MaxPauses = 2
  RequeuePending = TRUE
  MaxAttempts = 1
  AtomicResume = TRUE
  FaultyOps = {"subscribe", "publish", "bump", "get", "release"}
  MaxFaults = 1
  MaxStops = 2
  MaxStalls = 0
SYMMETRY Symmetry
INVARIANTS
  OneRunner
  ReclaimsOrphansOnly
  RequeuesBounded
  KeptLeaseStays
PROPERTY
  OutcomeSpec
CONSTRAINT
  Bounded
