\* Two passes to a keep-alive, passes of one or two ticks; the least MaxTimeDur
\* that is Timely.
CONSTANTS
  Clients = {"android", "test"}
  MaxCounter = 2
  MaxPass = 2
  MaxDelay = 2
  MaxStart = 3
  MaxTimeDur = 12
SPECIFICATION TimingSpec
INVARIANTS TimingTypeOK KeptAlive SilenceNoticed
