\* A second connection reuses the descriptor of the first.
CONSTANTS
  Conns = {c1, c2}
  NoConn = NoConn
  MaxFd = 2
  Messages = {"request"}
  MaxRequests = 1
  MayStall = FALSE
  MaxCounter = 1
  MaxTimeDur = 1
  PoolSize = 1
  FdSetSize = 2
  RawFds = {"raw_tcp"}
SPECIFICATION Spec
SYMMETRY ConnSymmetry
INVARIANTS PacketGoesToLessee
\* SIGPIPE ends the process.
CHECK_DEADLOCK FALSE
