SPECIFICATION FairSpec
CONSTANTS
  Dashboard = {p}
  NoDashboard = NoDashboard
  MaxLog = 2
  MaxLines = 1
  MaxLosses = 1
  Tails = {"torn", "oversized"}
  PageLimit = 1
  MaxPages = 2
  MaxGeneration = 5
  MaxTerm = 2
  MaxFailures = 1
  MaxOverruns = 0
PROPERTY CatchesUp
CHECK_DEADLOCK FALSE
