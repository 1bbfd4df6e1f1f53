CONSTANTS
  N_CLIENTS = 2
  N_USERS = 2
  Server = Server
  PIPE_CAPACITY = 1
  SOCKET_CAPACITY = 1
  MaxCommands = 2
SPECIFICATION Spec
CHECK_DEADLOCK FALSE
INVARIANT ChildComesBack
