\* Three messages, at most one of them the address, cut into reads anywhere.
CONSTANTS
  HdrSize = 2
  MaxPayload = 2
  Traffic <- ServerTraffic
  MaxSent = 3
  CutShort = FALSE
  ClosedElsewhere = FALSE
  MaxCounter = 1
  MaxTimeDur = 1
  Unit = 2
SPECIFICATION FairClientSpec
INVARIANTS FitsInMsg FlagMeansLeased HandledInOrder NothingLost CarriedOver
PROPERTIES ChannelSpec ClientEnds KeeperEnds SilenceEnds
\* SIGPIPE ends the process, and the client may be done.
CHECK_DEADLOCK FALSE
