SPECIFICATION Spec
CONSTANTS
  Dashboard = {p, q}
  NoDashboard = NoDashboard
  MaxLog = 2
  MaxLines = 2
  MaxLosses = 0
  Tails = {"torn"}
  PageLimit = 2
  MaxPages = 2
  MaxGeneration = 2
  MaxTerm = 2
  MaxFailures = 0
  MaxOverruns = 1
SYMMETRY Symmetry
INVARIANTS TypeOK NothingSkipped EvidenceIsTrue ShownIsStored ServedIsComplete
PROPERTY CursorNeverRetreats
CHECK_DEADLOCK FALSE
