\* Two replies or packets and two keep-alives on a connection that may break.
CONSTANTS
  Threads = {"main", "keep_alive"}
  NoThread = "none"
  Writes <- ServerWrites
  Unguarded <- Packets
  FrameSize <- Sizes
  MaxFrames = 2
SPECIFICATION FairFrameSpec
INVARIANTS FrameTypeOK GuardedWhole ThreadsWhole
PROPERTIES WriteEnds
\* MaxFrames.
CHECK_DEADLOCK FALSE
