CONSTANTS
  N_FACES = 2
  N_SQUARES = 2
  Colors <- TwoColors
  InitialCube <- Solved
  CubesSent <- OneCube
  OutOfRange = OutOfRange
  Unpainted = Unpainted
  MaxKeys = 1
  MaxFrames = 1
SPECIFICATION Spec
INVARIANT DrawsAFace
CHECK_DEADLOCK FALSE
