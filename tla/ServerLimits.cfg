\* Three connections, one descriptor, so that accept fails, and two entries in
\* client[].
CONSTANTS
  Conns = {c1, c2, c3}
  NoConn = NoConn
  MaxFd = 1
  Messages = {"request"}
  MaxRequests = 1
  MayStall = FALSE
  MaxCounter = 1
  MaxTimeDur = 1
  PoolSize = 1
  FdSetSize = 2
  RawFds = {}
SPECIFICATION ApartSpec
SYMMETRY ConnSymmetry
INVARIANTS StaysInClientArray
\* SIGPIPE ends the process.
CHECK_DEADLOCK FALSE
