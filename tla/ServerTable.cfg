\* One connection whose peer may stop reading at any time; a raw socket.
CONSTANTS
  Conns = {c1}
  NoConn = NoConn
  MaxFd = 1
  Messages = {"request", "refresh", "ignored"}
  MaxRequests = 1
  MayStall = TRUE
  MaxCounter = 1
  MaxTimeDur = 1
  PoolSize = 1
  FdSetSize = 1
  RawFds = {"raw_tcp"}
SPECIFICATION FairSpec
PROPERTIES TableLetGo
\* SIGPIPE ends the process.
CHECK_DEADLOCK FALSE
