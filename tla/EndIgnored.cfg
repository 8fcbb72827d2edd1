\* One message, which may be cut short.
CONSTANTS
  HdrSize = 3
  MaxPayload = 2
  Traffic <- ClientTraffic
  MaxSent = 1
  CutShort = TRUE
  ClosedElsewhere = FALSE
SPECIFICATION FairFramingSpec
PROPERTIES EndIsClosed
\* The peer may be done, the connection closed.
CHECK_DEADLOCK FALSE
