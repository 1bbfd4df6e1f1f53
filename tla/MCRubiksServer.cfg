CONSTANTS
  N_CLIENTS = 2
  PIPE_CAPACITY = 1
  MIN_DEPTH = 1
  MAX_DEPTH = 2
  Broadcaster = Broadcaster
  NoThread = NoThread
  UserLines <- TurnAndSpace
  RandomTurns <- TopTurns
  MaxCommands = 3
SPECIFICATION FairSpec
INVARIANTS
  TypeOK
  FramesAreWhole
  NewestStateIsAnnounced
  OneFramePerCommand
  ClientsSeeTheSameHistory
CHECK_DEADLOCK FALSE
PROPERTIES
  IsSharedCube
  ClientsConvergeUnlessClogged
