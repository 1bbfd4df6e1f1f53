CONSTANTS
  MIN_DEPTH = 1
  MAX_DEPTH = 1
  MaxKeys = 1
  Blank = Blank
SPECIFICATION Spec
PROPERTIES
  IsPhysicalCube
  KeysTurnTheFaceShown
CHECK_DEADLOCK FALSE
