SPECIFICATION FairSpec
CONSTANTS
  Dashboard = {d1, d2}
  MaxCommand = 2
  MaxCrashes = 1
  NoCommand = NoCommand
INVARIANTS
  QueueInv
  OneInFlight
PROPERTIES
  LaunchedInOrder
  UnaccountedStaysClosed
  
\* A Dashboard without repositories waits for ever.
CHECK_DEADLOCK FALSE
