SPECIFICATION FairSpec
CONSTANTS
  Process = {p, q}
  MaxStops = 1
  MaxStalls = 1
PROPERTY Takeover
CHECK_DEADLOCK FALSE
