\* Two connections, two addresses, every interleaving of the two threads.
CONSTANTS
  Conns = {c1, c2}
  NoConn = NoConn
  MaxFd = 2
  Messages = {"request", "refresh"}
  MaxRequests = 1
  MayStall = FALSE
  MaxCounter = 1
  MaxTimeDur = 1
  PoolSize = 2
  FdSetSize = 2
  RawFds = {}
SPECIFICATION Spec
SYMMETRY ConnSymmetry
INVARIANTS KeepAliveNotSkipped AcceptWaitsOnStale NoMutexCycle
PROPERTIES PoolSpec WriteKeepsLease
\* SIGPIPE ends the process.
CHECK_DEADLOCK FALSE
