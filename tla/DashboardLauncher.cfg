SPECIFICATION Spec
CONSTANTS
  Invocation = {i1, i2, i3}
  Port = {8420, 9000}
  MaxChildren = 3
  MaxKills = 1
INVARIANTS
  OnlyOne
  Accounted
SYMMETRY MCSymmetry
CHECK_DEADLOCK FALSE
