CONSTANTS
  N_FACES = 2
  N_SQUARES = 2
  Colors <- TwoColors
  InitialCube <- Solved
  CubesSent <- TwoCubes
  OutOfRange = OutOfRange
  Unpainted = Unpainted
  MaxKeys = 3
  MaxFrames = 2
SPECIFICATION FairSpec
INVARIANTS
  TypeOK
  QuiescentScreen
PROPERTIES
  ScreenCatchesUp
  ClientEnds
CHECK_DEADLOCK FALSE
