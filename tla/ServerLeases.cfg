\* Two connections one after the other on one descriptor, two addresses; a peer
\* may stop reading at any time.
CONSTANTS
  Conns = {c1, c2}
  NoConn = NoConn
  MaxFd = 1
  Messages = {"request"}
  MaxRequests = 1
  MayStall = TRUE
  MaxCounter = 1
  MaxTimeDur = 1
  PoolSize = 2
  FdSetSize = 1
  RawFds = {}
SPECIFICATION FairSpec
PROPERTIES DeadLeaseGivenBack
\* SIGPIPE ends the process.
CHECK_DEADLOCK FALSE
