\* Two keep-alives and three packets from outside fill buffers of two and one.
CONSTANTS
  Names <- AskedNames
  Leftovers <- StackBytes
  UpCap = 2
  DownCap = 1
  RawCap = 2
  Word = 65536
  MaxKeepAlives = 2
  MaxOutside = 3
SPECIFICATION TestClientSpec
INVARIANTS TunnelTypeOK OnePacketEach StuckOnlyWhenFull QuestionReadsBack AcceptedLeftovers
PROPERTIES AnsweredOrStuck
\* The threads may all wait for each other (Stuck), and the bounds run out.
CHECK_DEADLOCK FALSE
