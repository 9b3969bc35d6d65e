SPECIFICATION Spec
CONSTANTS
  Process = {p1, p2, p3}
  NoProcess = NoProcess
  LogEvent <- Events
  MaxExecution = 2
  MaxIOErrors = 1
INVARIANTS TypeOK DurableLog  BoundariesReplay
PROPERTY QuarantineSpec
CHECK_DEADLOCK FALSE
