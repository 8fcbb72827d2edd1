\* The threads never work on one descriptor at the same time.
CONSTANTS
  Conns = {c1, c2}
  NoConn = NoConn
  MaxFd = 2
  Messages = {"request", "refresh"}
  MaxRequests = 1
  MayStall = FALSE
  MaxCounter = 1
  MaxTimeDur = 1
  PoolSize = 2
  FdSetSize = 2
  RawFds = {"raw_tcp"}
SPECIFICATION ApartSpec
SYMMETRY ConnSymmetry
INVARIANTS ConnectionsServed LeaseHasConnection MapMatchesTable PacketGoesToLessee
           ReadWaitsForNewcomer
PROPERTIES SilentIsClosed
\* SIGPIPE ends the process.
CHECK_DEADLOCK FALSE
