SPECIFICATION SocketSpec
CONSTANTS
  Connections = {1, 2, 3}
  MaxFd = 2
  Nobody = 0
INVARIANTS
  ThreadsKeepToTheirOwn
PROPERTIES
  GoneIsClosed
  ServiceEnds
CHECK_DEADLOCK FALSE
