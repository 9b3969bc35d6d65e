SPECIFICATION Spec
CONSTANTS
  Issue = {i1}
  Execution = {x1}
  Run = {r1}
  Generation = {g1}
  Workspace = {w1, w2}
  None = None
  Histories <- MCHistories
  MaxNew = 2
  Altered <- MCAltered
  MaxOddities = 1
INVARIANTS TypeOK ReadyIsComplete StrictAgrees AttentionIsWarranted
CHECK_DEADLOCK FALSE
