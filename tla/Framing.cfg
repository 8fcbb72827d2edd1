\* Three messages, one of them perhaps too long, cut into reads anywhere; the
\* stream ends anywhere, and the descriptor may be closed under the reader.
CONSTANTS
  HdrSize = 3
  MaxPayload = 2
  Traffic <- AnyTraffic
  MaxSent = 3
  CutShort = TRUE
  ClosedElsewhere = TRUE
SPECIFICATION FairFramingSpec
INVARIANTS FitsInMsg GarbledIsLast
PROPERTIES ChannelSpec SentIsHandled
\* The peer may be done, the connection closed.
CHECK_DEADLOCK FALSE
