SPECIFICATION FairSpec
CONSTANTS
  RetentionLimit = 3
  ReplayCap = 2
  MaxChanges = 5
  MaxDrops = 2
INVARIANTS Gapless NothingForgotten
 
CHECK_DEADLOCK FALSE
