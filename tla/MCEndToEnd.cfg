CONSTANTS
  N_FACES = 2
  N_SQUARES = 1
  Colors <- TwoColors
  InitialCube <- Solved
  CubesSent <- AllCubes
  OutOfRange = OutOfRange
  Unpainted = Unpainted
  MaxKeys = 2
  MaxFrames = 3
  rotate <- Turn
  Shuffles <- OneTurn
  N_SLOTS = 3
  client_id = 1
  PIPE_CAPACITY = 1
  MaxOthers = 1
SPECIFICATION EndToEndSpec
INVARIANTS
  ServerTypeOK
  ScreenShowsTheCube
PROPERTY CubeReachesScreen
CHECK_DEADLOCK FALSE
