SPECIFICATION Spec
CONSTANTS
  w1 = w1
  w2 = w2
  r1 = r1
  c1 = c1
  NoOne = NoOne
  Workers = {w1, w2}
  Runs = {r1}
  Clients = {c1}
  Kind = "research"
  MaxPauses = 1
  RequeuePending = FALSE
  MaxAttempts = 1
  AtomicResume = FALSE
  FaultyOps = {}
  MaxFaults = 0
  MaxStops = 0
  MaxStalls = 0
PROPERTY
  AnswersSpareOutcome
