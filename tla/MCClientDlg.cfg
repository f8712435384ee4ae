SPECIFICATION Spec
CONSTANTS
  Positions = {up, down, left}
  MaxConnects = 4
INVARIANTS
  ButtonTruthful
  NewcomerSpared
CHECK_DEADLOCK FALSE
