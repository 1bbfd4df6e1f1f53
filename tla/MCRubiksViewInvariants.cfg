CONSTANTS
  MIN_DEPTH = 1
  MAX_DEPTH = 2
  MaxKeys = 2
  Blank = Blank
SPECIFICATION Spec
INVARIANTS
  TypeOK
  SolvedIffUniform
  OddTurnsNeverSolve
CHECK_DEADLOCK FALSE
