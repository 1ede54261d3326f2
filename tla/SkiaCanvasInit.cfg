SPECIFICATION Spec
CONSTANTS
  MaxTouches = 2
  MaxFingers = 1
  MaxResizes = 0
INVARIANTS
  DisplayIsSet
CHECK_DEADLOCK FALSE
